---------------------------- MODULE Spec2Model ----------------------------
(***************************************************************************)
(* A model of the signal-to-order pipeline of the ai-hedge-fund            *)
(* repository:                                                             *)
(*   - position reconciliation and order dispatch                          *)
(*     (src/src/brokers/execution.py, src/src/brokers/alpaca.py),          *)
(*   - the queue worker (src/src/jobs/queue_worker.py),                    *)
(*   - the three monitor passes (src/infra/monitoring/function_app.py),    *)
(*   - the market calendar (src/infra/monitoring/market_calendar.py),      *)
(*   - signal detection (src/infra/monitoring/signal_detection.py).        *)
(* Each subsystem has its own specification over its own variables; the    *)
(* variables of the other subsystems are frozen at their initial value.    *)
(***************************************************************************)
EXTENDS Integers, Sequences, FiniteSets, TLC

VARIABLES
    \* ---- position reconciliation and sub-order submission ----
    rPc,          \* "idle" | "submitting" | "done"
    rBrokerQty,   \* the broker's signed position.qty, in half shares
    rPosition,    \* what get_current_position returned: [long, short, side]
    rAction,      \* desired action of the decision
    rQty,         \* desired quantity handed to _reconcile_position
    rOrders,      \* the reconciled orders, a sequence of [action, quantity]
    rIdx,         \* number of sub-orders submitted so far
    rLong,        \* long shares held after the sub-orders submitted so far
    rShort,       \* short shares held after the sub-orders submitted so far
    rAllFilled,   \* TRUE while every submitted sub-order filled fully
    \* ---- the storage queues and the queue workers ----
    qContent,     \* message id -> content of the message
    qInQueue,     \* message id -> the message is still in the queue
    qVisible,     \* message id -> the message is visible to receive_message
    qReceipt,     \* message id -> the worker holding its valid pop receipt
    qDequeued,    \* message id -> how often the queue has handed it out
    dlqConfigured,\* the worker has a dead_letter_client
    dlq,          \* the dead-letter queue: the dead-letter payloads sent
    qLog,         \* the warnings and errors the workers logged
    hedgeCalled,  \* the messages run_hedge_fund was invoked for
    processedOk,  \* the messages a run processed successfully
    wPc,          \* worker -> "idle" | "received" | "processing" | "deadletter" | "ended"
    wMsg,         \* worker -> the message of its current run()
    wReason,      \* worker -> the reason handed to _dead_letter
    wResult,      \* worker -> how its run() ended: "True" | "False" | an exception
    \* ---- the monitor passes, their store and their queue ----
    today,        \* the date the passes run on
    sessionEnd,   \* the minute of the day the observed period ends at
    now,          \* the clock: the minute of the day
    settings,     \* the environment of the function app: [queue, store], whether
                  \* the connection settings of the queue and of the store are set
    cooldownRec,  \* ticker -> last_triggered_utc of its CooldownRecord
    cand,         \* the FastCandidate documents of the store
    sent,         \* the messages sent to the analysis queue, in order
    mainPass,     \* market_monitor: [pc, now_utc, idx, fast_candidate, signal, last_trigger]
    otherMain,    \* an invocation of market_monitor beside the first, as mainPass
    fastPass,     \* fast_monitor: [pc]
    validationPass, \* validation_monitor: [pc, evaluated]
    \* ---- the functions checked on their own ----
    calNow,       \* is_market_open: the timestamp handed to it
    calOpen,      \* is_market_open: what it returned
    bConfig,      \* QueueConfig: [max_attempts, base_backoff_seconds, max_backoff_seconds]
    bPc,          \* _execute_with_backoff: "idle" | "calling" | "sleeping" | "returned" | "raised"
    bSuppress,    \* its suppress_errors argument
    bAttempt,     \* its local attempt
    bCalls,       \* how often it has called func()
    bRetried,     \* how many of these calls raised a retryable error
    bLast,        \* what the last call of func() did
    bResult,      \* what it returned ("value", "None") or the exception it raised
    bWarned,      \* it logged a warning or an error
    bDelay,       \* the last _compute_backoff: [attempt, delay, jitter, total]
    sInput,       \* enhanced_signal_detection: what its checks compute from its arguments
    sResult,      \* the SignalResult it returned
    sScores,      \* its local confidence_scores at the return
    sPrev,        \* the call before, on the same bars: [input, result], or NoCall
    \* ---- dispatch_paper_orders ----
    dPc,          \* "ticker" | "submitting" | "returned" | "raised"
    dDecisions,   \* the decisions argument: the raw decision of each ticker, in order
    dDryRun,      \* the dry_run argument
    dClient,      \* PaperBroker._client is a TradingClient (FALSE: it is None)
    dReads,       \* the reads of the TradingClient: [ticker, call]
    dTicker,      \* the index of the ticker the loop is at
    dReconciled,  \* reconciled_orders of that ticker
    dIdx,         \* the number of its sub-orders the inner loop has handled
    dOrders,      \* the local orders: the order records to return
    dStore,       \* the [ticker, status] of the orders handed to order_store
    dLog,         \* the [ticker, cause] of the decisions the loop logged and left
    dEmitted,     \* every sub-order _reconcile_position emitted: [ticker, action, quantity]
    dCalls,       \* the calls of broker.submit_order: [ticker, action, quantity, failure]
    dShortable,   \* what broker.check_shortable returned: [ticker, shortable]
    dSlept,       \* the calls of time.sleep: [ticker, calls, seconds], calls being the
                  \* number of submit_order calls made before it
    \* ---- the direction check of validation_monitor ----
    vCheck,       \* [pc, move, signal_doc, current_price, points]: a candidate from
                  \* its detection by fast_monitor to its direction points
    \* ---- the trade mode of QueueWorker._process_message ----
    tRun,         \* [pc, use_alpaca, override, dry_run, decisions, passed, dispatched,
                  \*  recorded]: one message from run_kwargs to result_record
    \* ---- the loop of a monitor pass over its tickers ----
    loopRun       \* [pass, watchlist, idx, handled]: one invocation from its first
                  \* ticker to its return

rVars == <<rPc, rBrokerQty, rPosition, rAction, rQty, rOrders, rIdx,
           rLong, rShort, rAllFilled>>

qVars == <<qContent, qInQueue, qVisible, qReceipt, qDequeued, dlqConfigured,
           dlq, qLog, hedgeCalled, processedOk, wPc, wMsg, wReason, wResult>>

mVars == <<today, sessionEnd, now, settings, cooldownRec, cand, sent,
           mainPass, otherMain, fastPass, validationPass>>

calVars == <<calNow, calOpen>>

bVars == <<bConfig, bPc, bSuppress, bAttempt, bCalls, bRetried, bLast, bResult,
           bWarned, bDelay>>

sVars == <<sInput, sResult, sScores, sPrev>>

dVars == <<dPc, dDecisions, dDryRun, dClient, dReads, dTicker, dReconciled, dIdx, dOrders, dStore,
           dLog, dEmitted, dCalls, dSlept, dShortable>>

vVars == <<vCheck>>

tVars == <<tRun>>

lVars == <<loopRun>>

fVars == <<calVars, bVars, sVars, dVars, vVars, tVars, lVars>>

vars == <<rVars, qVars, mVars, fVars>>

Min(a, b) == IF a <= b THEN a ELSE b
Max(a, b) == IF a >= b THEN a ELSE b
Abs(a) == IF a >= 0 THEN a ELSE -a

(***************************************************************************)
(* Position reconciliation                                                 *)
(***************************************************************************)

\* Largest number of whole shares the broker position and a decision hold.
MaxShares == 3

Actions == {"buy", "sell", "short", "cover"}

\* position.qty as the broker reports it: a signed decimal, here in halves.
BrokerQtys == (-2 * MaxShares) .. (2 * MaxShares)

Order(a, q) == [action |-> a, quantity |-> q]

\* int(x) of a non-negative number of half shares: truncation.
IntOfHalves(h) == h \div 2

\* PaperBroker.get_current_position: the signed qty mapped to long/short/side.
get_current_position(qtyHalves) ==
    IF qtyHalves > 0
    THEN [long |-> IntOfHalves(qtyHalves), short |-> 0, side |-> "long"]
    ELSE IF qtyHalves < 0
    THEN [long |-> 0, short |-> IntOfHalves(Abs(qtyHalves)), side |-> "short"]
    ELSE [long |-> 0, short |-> 0, side |-> "flat"]

\* action_intent of _reconcile_position.
action_intent(a) ==
    CASE a = "buy" -> "long"
      [] a = "sell" -> "reduce_long"
      [] a = "short" -> "short"
      [] a = "cover" -> "reduce_short"
      [] OTHER -> "none"

\* A wrong reconciliation that enters the new side without flattening.
_reconcile_position_no_flatten(current_position, desired_action, desired_quantity) ==
    LET intent == action_intent(desired_action)
        side == current_position.side
    IN  CASE intent = "long" -> <<Order("buy", desired_quantity)>>
          [] intent = "short" -> <<Order("short", desired_quantity)>>
          [] intent = "reduce_long" ->
                IF side = "long"
                THEN <<Order("sell", Min(desired_quantity, current_position.long))>>
                ELSE <<>>
          [] intent = "reduce_short" ->
                IF side = "short"
                THEN <<Order("cover", Min(desired_quantity, current_position.short))>>
                ELSE <<>>
          [] OTHER -> <<>>

\* A wrong reconciliation that does not cap a reduction to the holdings.
_reconcile_position_no_cap(current_position, desired_action, desired_quantity) ==
    LET intent == action_intent(desired_action)
        side == current_position.side
    IN  CASE intent = "long" ->
                IF side = "short"
                THEN <<Order("cover", current_position.short), Order("buy", desired_quantity)>>
                ELSE <<Order("buy", desired_quantity)>>
          [] intent = "short" ->
                IF side = "long"
                THEN <<Order("sell", current_position.long), Order("short", desired_quantity)>>
                ELSE <<Order("short", desired_quantity)>>
          [] intent = "reduce_long" ->
                IF side = "long" THEN <<Order("sell", desired_quantity)>> ELSE <<>>
          [] intent = "reduce_short" ->
                IF side = "short" THEN <<Order("cover", desired_quantity)>> ELSE <<>>
          [] OTHER -> <<>>

\* A wrong reconciliation that enters the new side before flattening the old.
_reconcile_position_enter_first(current_position, desired_action, desired_quantity) ==
    LET intent == action_intent(desired_action)
        side == current_position.side
    IN  CASE intent = "long" ->
                IF side = "short"
                THEN <<Order("buy", desired_quantity), Order("cover", current_position.short)>>
                ELSE <<Order("buy", desired_quantity)>>
          [] intent = "short" ->
                IF side = "long"
                THEN <<Order("short", desired_quantity), Order("sell", current_position.long)>>
                ELSE <<Order("short", desired_quantity)>>
          [] intent = "reduce_long" ->
                IF side = "long"
                THEN <<Order("sell", Min(desired_quantity, current_position.long))>>
                ELSE <<>>
          [] intent = "reduce_short" ->
                IF side = "short"
                THEN <<Order("cover", Min(desired_quantity, current_position.short))>>
                ELSE <<>>
          [] OTHER -> <<>>

\* _reconcile_position: the ordered sub-orders for a desired action.
_reconcile_position(current_position, desired_action, desired_quantity) ==
    LET intent == action_intent(desired_action)
        current_side == current_position.side
        long_qty == current_position.long
        short_qty == current_position.short
    IN  IF intent = "long"
        THEN IF current_side = "short"
             THEN <<Order("cover", short_qty), Order("buy", desired_quantity)>>
             ELSE IF current_side = "long"
             THEN <<Order("buy", desired_quantity)>>
             ELSE <<Order("buy", desired_quantity)>>
        ELSE IF intent = "short"
        THEN IF current_side = "long"
             THEN <<Order("sell", long_qty), Order("short", desired_quantity)>>
             ELSE IF current_side = "short"
             THEN <<Order("short", desired_quantity)>>
             ELSE <<Order("short", desired_quantity)>>
        ELSE IF intent = "reduce_long"
        THEN IF current_side = "long"
             THEN IF desired_quantity <= long_qty
                  THEN <<Order("sell", desired_quantity)>>
                  ELSE <<Order("sell", long_qty)>>
             ELSE <<>>
        ELSE IF intent = "reduce_short"
        THEN IF current_side = "short"
             THEN IF desired_quantity <= short_qty
                  THEN <<Order("cover", desired_quantity)>>
                  ELSE <<Order("cover", short_qty)>>
             ELSE <<>>
        ELSE <<>>

\* The effect of one fully filled sub-order on the held long/short shares.
FillLong(a, q, long) ==
    CASE a = "buy" -> long + q
      [] a = "sell" -> long - q
      [] OTHER -> long

FillShort(a, q, short) ==
    CASE a = "short" -> short + q
      [] a = "cover" -> short - q
      [] OTHER -> short

\* The reconciliation variables before any decision, with a flat position.
RStart ==
    /\ rPc = "idle"
    /\ rBrokerQty = 0
    /\ rPosition = get_current_position(0)
    /\ rAction = "buy"
    /\ rQty = 1
    /\ rOrders = <<>>
    /\ rIdx = 0
    /\ rLong = 0
    /\ rShort = 0
    /\ rAllFilled = TRUE

RInit ==
    /\ rPc = "idle"
    /\ rBrokerQty \in BrokerQtys
    /\ rPosition = get_current_position(0)
    /\ rAction = "buy"
    /\ rQty = 1
    /\ rOrders = <<>>
    /\ rIdx = 0
    /\ rLong = 0
    /\ rShort = 0
    /\ rAllFilled = TRUE

\* dispatch_paper_orders, for one decision that passed the skip checks: read
\* the position, reconcile it with the decision.
Reconcile(a, q) ==
    /\ rPc = "idle"
    /\ LET pos == get_current_position(rBrokerQty)
           orders == _reconcile_position(pos, a, q)
       IN  /\ rPosition' = pos
           /\ rAction' = a
           /\ rQty' = q
           /\ rOrders' = orders
           /\ rLong' = pos.long
           /\ rShort' = pos.short
           /\ rPc' = IF orders = <<>> THEN "done" ELSE "submitting"
    /\ rIdx' = 0
    /\ rAllFilled' = TRUE
    /\ UNCHANGED rBrokerQty
    /\ UNCHANGED <<qVars, mVars, fVars>>

\* One iteration of the sub-order loop: the order is submitted and either
\* fills fully or fails; the loop goes on to the next sub-order either way.
SubmitOrder(filled) ==
    /\ rPc = "submitting"
    /\ LET o == rOrders[rIdx + 1]
       IN  /\ rLong' = IF filled THEN FillLong(o.action, o.quantity, rLong) ELSE rLong
           /\ rShort' = IF filled THEN FillShort(o.action, o.quantity, rShort) ELSE rShort
    /\ rAllFilled' = (rAllFilled /\ filled)
    /\ rIdx' = rIdx + 1
    /\ rPc' = IF rIdx + 1 = Len(rOrders) THEN "done" ELSE "submitting"
    /\ UNCHANGED <<rBrokerQty, rPosition, rAction, rQty, rOrders>>
    /\ UNCHANGED <<qVars, mVars, fVars>>

\* The next decision finds the broker position in any state.
NextDecision(qty) ==
    /\ rPc = "done"
    /\ rPc' = "idle"
    /\ rBrokerQty' = qty
    /\ UNCHANGED <<rPosition, rAction, rQty, rOrders, rIdx, rLong, rShort, rAllFilled>>
    /\ UNCHANGED <<qVars, mVars, fVars>>

RNext ==
    \/ \E a \in Actions, q \in 1..MaxShares : Reconcile(a, q)
    \/ \E filled \in BOOLEAN : SubmitOrder(filled)
    \/ \E qty \in BrokerQtys : NextDecision(qty)


(***************************************************************************)
(* Queue worker: message payloads and _parse_message                       *)
(***************************************************************************)

\* A JSON value, by the class of it the parser can tell apart:
\*   absent (missing key or null), empty_str "", blank_str " ", str "aapl",
\*   zero (0 or false), number (5 or true), empty_list [], blank_list [" "],
\*   list ["aapl"], empty_obj {}, obj {"k": 1}.
JsonValues == {"absent", "empty_str", "blank_str", "str", "zero", "number",
               "empty_list", "blank_list", "list", "empty_obj", "obj"}

\* Python truthiness of a JSON value.
Truthy(v) == v \notin {"absent", "empty_str", "zero", "empty_list", "empty_obj"}

\* a or b or c
OrChain(a, b, c) == IF Truthy(a) THEN a ELSE IF Truthy(b) THEN b ELSE c

\* bool(str(t).strip()) for a list element t of class v: only strings of
\* blanks (and the empty string) strip to nothing.
ElementKept(v) == v \notin {"empty_str", "blank_str"}

\* A message content: text or not, JSON or not, a JSON object or not, and for
\* an object the classes of the keys _parse_message reads. window says whether
\* both a start and an end date are given; lookback is the lookback_days
\* value: absent, int (converts), bad (int() raises ValueError or TypeError),
\* huge (converts, but now - timedelta(days) overflows).
Content(kind, tickers, ticker, symbol, asset, window, lookback, overrides) ==
    [kind |-> kind, tickers |-> tickers, ticker |-> ticker, symbol |-> symbol,
     asset |-> asset, window |-> window, lookback |-> lookback,
     overrides |-> overrides]

NonObject(kind) ==
    Content(kind, "absent", "absent", "absent", "absent", FALSE, "absent", "absent")

\* The payloads the queue holds: one per branch of _parse_message.
Contents ==
    { NonObject("not_text"), NonObject("invalid_json"), NonObject("not_object"),
      Content("object", "list", "absent", "absent", "absent", TRUE, "absent", "absent"),
      Content("object", "absent", "str", "absent", "absent", FALSE, "int", "obj"),
      Content("object", "absent", "absent", "absent", "absent", FALSE, "absent", "absent"),
      Content("object", "number", "absent", "absent", "absent", FALSE, "absent", "absent"),
      Content("object", "blank_list", "absent", "absent", "absent", TRUE, "absent", "absent"),
      Content("object", "str", "absent", "absent", "absent", FALSE, "bad", "absent"),
      Content("object", "absent", "absent", "str", "absent", TRUE, "absent", "empty_obj"),
      Content("object", "empty_list", "absent", "absent", "blank_str", FALSE, "absent", "absent"),
      Content("object", "list", "absent", "absent", "absent", TRUE, "absent", "str"),
      Content("object", "absent", "str", "absent", "absent", FALSE, "huge", "absent"),
      Content("object", "obj", "absent", "absent", "absent", TRUE, "absent", "absent"),
      Content("object", "list", "absent", "absent", "absent", TRUE, "absent", "empty_list") }

ParseOk == [outcome |-> "ok", reason |-> "none", exception |-> "none"]
Poison(reason) == [outcome |-> "poison", reason |-> reason, exception |-> "PoisonMessageError"]
ParseRaises(exc) == [outcome |-> "error", reason |-> "none", exception |-> exc]

\* The tickers list after the isinstance(str) wrap and the single-ticker
\* fallback: "none" when still falsy, otherwise what the comprehension
\* iterates: a list with only kept elements ("list"), only dropped elements
\* ("blank_list"), or a value that is not iterable ("not_iterable").
TickersToIterate(c) ==
    LET wrapped == CASE c.tickers = "str" -> "list"
                     [] c.tickers \in {"empty_str", "blank_str"} -> "blank_list"
                     [] OTHER -> c.tickers
        single == OrChain(c.ticker, c.symbol, c.asset)
    IN  IF Truthy(wrapped)
        THEN CASE wrapped = "number" -> "not_iterable"
               [] wrapped = "obj" -> "list"
               [] OTHER -> wrapped
        ELSE IF Truthy(single)
        THEN (IF ElementKept(single) THEN "list" ELSE "blank_list")
        ELSE "none"

\* QueueWorker._parse_message.
_parse_message(c) ==
    IF c.kind = "not_text" THEN Poison("Queue message content must be text")
    ELSE IF c.kind = "invalid_json" THEN Poison("Message content is not valid JSON")
    ELSE IF c.kind # "object" THEN Poison("Queue message payload must be a JSON object")
    ELSE LET tickers == TickersToIterate(c)
         IN  IF tickers = "none"
             THEN Poison("Queue message must include 'tickers' or a single 'ticker'/'symbol'")
             ELSE IF tickers = "not_iterable" THEN ParseRaises("TypeError")
             ELSE IF tickers = "blank_list"
             THEN Poison("Queue message included an empty ticker list")
             ELSE IF ~c.window /\ c.lookback = "huge" THEN ParseRaises("OverflowError")
             ELSE IF Truthy(c.overrides) /\ c.overrides # "obj"
             THEN Poison("'overrides' must be a JSON object when provided")
             ELSE ParseOk

(***************************************************************************)
(* Queue worker: _execute_with_backoff                                     *)
(***************************************************************************)

\* QueueConfig.max_attempts (QUEUE_MAX_ATTEMPTS), here a small value.
max_attempts == 2

\* What one call of a wrapped queue operation does: it succeeds, or raises
\*   azure:   an AzureError (ServiceRequestError, ServiceResponseError, ...),
\*   timeout: a TimeoutError or httpx.HTTPError (retryable, not an AzureError),
\*   fatal:   any other exception.
CallOutcomes == {"ok", "azure", "timeout", "fatal"}

RETRYABLE_EXCEPTIONS == {"azure", "timeout"}

\* The answers of the service to the successive calls of one operation.
OutcomeSeqs == [1..max_attempts -> CallOutcomes]

Returned(value, attempt) ==
    [result |-> "returned", value |-> value, exception |-> "none",
     calls |-> attempt, sleeps |-> attempt - 1]

Raised(exc, attempt) ==
    [result |-> "raised", value |-> "none", exception |-> exc,
     calls |-> attempt, sleeps |-> attempt - 1]

\* The while loop of _execute_with_backoff from attempt number `attempt` on.
RECURSIVE backoff_loop(_, _, _)
backoff_loop(outcomes, suppress_errors, attempt) ==
    LET o == outcomes[attempt]
    IN  IF o = "ok" THEN Returned("ok", attempt)
        ELSE IF o \in RETRYABLE_EXCEPTIONS
        THEN IF attempt >= max_attempts
             THEN (IF suppress_errors THEN Returned("None", attempt)
                                      ELSE Raised(o, attempt))
             ELSE backoff_loop(outcomes, suppress_errors, attempt + 1)
        ELSE IF suppress_errors THEN Returned("None", attempt)
                                ELSE Raised(o, attempt)

\* QueueWorker._execute_with_backoff.
_execute_with_backoff(outcomes, suppress_errors) ==
    backoff_loop(outcomes, suppress_errors, 1)

(***************************************************************************)
(* Queue worker: run()                                                     *)
(***************************************************************************)

\* Number of messages in the queue and of workers polling it.
NumMsgs == 1
NumWorkers == 2
\* How often the queue hands out one message at most.
MaxDeliveries == 2

Msgs == 1..NumMsgs
Workers == 1..NumWorkers
NoMsg == 0
NoWorker == 0

\* What processing a parsed message does: it completes; get_alpaca_portfolio
\* fails before run_hedge_fund is called (re-raised as RuntimeError); or
\* run_hedge_fund or a later step raises.
ProcessOutcomes == {"ok", "portfolio_error", "hedge_error"}

\* The reason run() gives for a failed processing:
\* f"processing_error: {type(exc).__name__}".
ProcessingError(outcome) ==
    IF outcome = "portfolio_error" THEN "processing_error: RuntimeError"
                                   ELSE "processing_error: ValueError"

\* The dead-letter payload (content and deadLetteredAt left out).
DeadLetterPayload(m, reason) == [originalMessageId |-> m, reason |-> reason]

LogEntry(m, what) == [message |-> m, what |-> what]

\* The queue worker variables before any run: no message, nothing logged.
QStart ==
    /\ qContent = [m \in Msgs |-> NonObject("invalid_json")]
    /\ qInQueue = [m \in Msgs |-> FALSE]
    /\ qVisible = [m \in Msgs |-> FALSE]
    /\ qReceipt = [m \in Msgs |-> NoWorker]
    /\ qDequeued = [m \in Msgs |-> 0]
    /\ dlqConfigured = TRUE
    /\ dlq = {}
    /\ qLog = {}
    /\ hedgeCalled = {}
    /\ processedOk = {}
    /\ wPc = [w \in Workers |-> "idle"]
    /\ wMsg = [w \in Workers |-> NoMsg]
    /\ wReason = [w \in Workers |-> "none"]
    /\ wResult = [w \in Workers |-> "none"]

\* The queue holds NumMsgs visible messages of any content; the worker has a
\* dead-letter client or not (from_environment leaves it None on AzureError).
QInit ==
    /\ qContent \in [Msgs -> Contents]
    /\ qInQueue = [m \in Msgs |-> TRUE]
    /\ qVisible = [m \in Msgs |-> TRUE]
    /\ qReceipt = [m \in Msgs |-> NoWorker]
    /\ qDequeued = [m \in Msgs |-> 0]
    /\ dlqConfigured \in BOOLEAN
    /\ dlq = {}
    /\ qLog = {}
    /\ hedgeCalled = {}
    /\ processedOk = {}
    /\ wPc = [w \in Workers |-> "idle"]
    /\ wMsg = [w \in Workers |-> NoMsg]
    /\ wReason = [w \in Workers |-> "none"]
    /\ wResult = [w \in Workers |-> "none"]

\* The runs that have handed message m to _parse_message so far: every
\* receive of it, less the runs that are still at the delete call.
Handled(m) ==
    qDequeued[m] - Cardinality({w \in Workers : wPc[w] = "received" /\ wMsg[w] = m})

VisibleMsgs == {m \in Msgs : qInQueue[m] /\ qVisible[m] /\ qDequeued[m] < MaxDeliveries}

\* run() ends: it returns True or False, or an exception leaves it.
EndRun(w, result) ==
    /\ wPc' = [wPc EXCEPT ![w] = "ended"]
    /\ wResult' = [wResult EXCEPT ![w] = result]

\* run(), first step: _receive_message. A successful call returns a visible
\* message m and hides it for the visibility timeout, or returns None when no
\* message is visible.
Receive(w, outcomes, m) ==
    /\ wPc[w] = "idle"
    /\ LET r == _execute_with_backoff(outcomes, FALSE)
       IN  IF r.result = "raised"
           THEN /\ m = NoMsg
                /\ EndRun(w, r.exception)
                /\ UNCHANGED <<qVisible, qReceipt, qDequeued, wMsg>>
           ELSE IF VisibleMsgs = {}
           THEN /\ m = NoMsg
                /\ EndRun(w, "False")
                /\ UNCHANGED <<qVisible, qReceipt, qDequeued, wMsg>>
           ELSE /\ m \in VisibleMsgs
                /\ qVisible' = [qVisible EXCEPT ![m] = FALSE]
                /\ qReceipt' = [qReceipt EXCEPT ![m] = w]
                /\ qDequeued' = [qDequeued EXCEPT ![m] = @ + 1]
                /\ wMsg' = [wMsg EXCEPT ![w] = m]
                /\ wPc' = [wPc EXCEPT ![w] = "received"]
                /\ UNCHANGED wResult
    /\ UNCHANGED <<qContent, qInQueue, dlqConfigured, dlq, qLog, hedgeCalled,
                   processedOk, wReason>>
    /\ UNCHANGED <<rVars, mVars, fVars>>

\* run(), second step: _delete_message (errors suppressed), then
\* _parse_message. The delete call can succeed only with the valid pop receipt.
DeleteAndParse(w, outcomes) ==
    /\ wPc[w] = "received"
    /\ LET m == wMsg[w]
           r == _execute_with_backoff(outcomes, TRUE)
           parsed == _parse_message(qContent[m])
       IN  /\ (r.value = "ok") => (qInQueue[m] /\ qReceipt[m] = w)
           /\ qInQueue' = IF r.value = "ok" THEN [qInQueue EXCEPT ![m] = FALSE]
                                            ELSE qInQueue
           /\ qLog' = IF r.value = "ok" THEN qLog
                      ELSE qLog \cup {LogEntry(m, "delete_message failed")}
           /\ IF parsed.outcome = "ok"
              THEN /\ wPc' = [wPc EXCEPT ![w] = "processing"]
                   /\ UNCHANGED <<wReason, wResult>>
              ELSE IF parsed.outcome = "poison"
              THEN /\ wPc' = [wPc EXCEPT ![w] = "deadletter"]
                   /\ wReason' = [wReason EXCEPT ![w] = parsed.reason]
                   /\ UNCHANGED wResult
              ELSE /\ EndRun(w, parsed.exception)
                   /\ UNCHANGED wReason
    /\ UNCHANGED <<qContent, qVisible, qReceipt, qDequeued, dlqConfigured, dlq,
                   hedgeCalled, processedOk, wMsg>>
    /\ UNCHANGED <<rVars, mVars, fVars>>

\* run(), third step: _process_with_retries. Every exception of processing is
\* caught and handed to _dead_letter with reason processing_error: <type>.
Process(w, outcome) ==
    /\ wPc[w] = "processing"
    /\ LET m == wMsg[w]
       IN  /\ hedgeCalled' = IF outcome = "portfolio_error" THEN hedgeCalled
                             ELSE hedgeCalled \cup {m}
           /\ processedOk' = IF outcome = "ok" THEN processedOk \cup {m}
                                               ELSE processedOk
           /\ IF outcome = "ok"
              THEN /\ EndRun(w, "True")
                   /\ UNCHANGED wReason
              ELSE /\ wPc' = [wPc EXCEPT ![w] = "deadletter"]
                   /\ wReason' = [wReason EXCEPT ![w] = ProcessingError(outcome)]
                   /\ UNCHANGED wResult
    /\ UNCHANGED <<qContent, qInQueue, qVisible, qReceipt, qDequeued,
                   dlqConfigured, dlq, qLog, wMsg>>
    /\ UNCHANGED <<rVars, mVars, fVars>>

\* _dead_letter, then run() returns True: without a dead-letter client the
\* message is dropped with a warning; otherwise the payload is sent with
\* backoff, and only an AzureError of the send is caught and logged.
DeadLetter(w, outcomes) ==
    /\ wPc[w] = "deadletter"
    /\ LET m == wMsg[w]
           r == _execute_with_backoff(outcomes, FALSE)
       IN  IF ~dlqConfigured
           THEN /\ outcomes = [i \in 1..max_attempts |-> "ok"]
                /\ qLog' = qLog \cup {LogEntry(m, "dropped: no dead-letter queue")}
                /\ EndRun(w, "True")
                /\ UNCHANGED dlq
           ELSE IF r.result = "returned"
           THEN /\ dlq' = dlq \cup {DeadLetterPayload(m, wReason[w])}
                /\ EndRun(w, "True")
                /\ UNCHANGED qLog
           ELSE IF r.exception = "azure"
           THEN /\ qLog' = qLog \cup {LogEntry(m, "send_dead_letter failed")}
                /\ EndRun(w, "True")
                /\ UNCHANGED dlq
           ELSE /\ EndRun(w, r.exception)
                /\ UNCHANGED <<dlq, qLog>>
    /\ UNCHANGED <<qContent, qInQueue, qVisible, qReceipt, qDequeued,
                   dlqConfigured, hedgeCalled, processedOk, wMsg, wReason>>
    /\ UNCHANGED <<rVars, mVars, fVars>>

\* The scheduler invokes run() again.
RunAgain(w) ==
    /\ wPc[w] = "ended"
    /\ wPc' = [wPc EXCEPT ![w] = "idle"]
    /\ wMsg' = [wMsg EXCEPT ![w] = NoMsg]
    /\ wReason' = [wReason EXCEPT ![w] = "none"]
    /\ wResult' = [wResult EXCEPT ![w] = "none"]
    /\ UNCHANGED <<qContent, qInQueue, qVisible, qReceipt, qDequeued,
                   dlqConfigured, dlq, qLog, hedgeCalled, processedOk>>
    /\ UNCHANGED <<rVars, mVars, fVars>>

\* The visibility timeout of a received message that was not deleted runs out.
VisibilityTimeout(m) ==
    /\ qInQueue[m]
    /\ ~qVisible[m]
    /\ qVisible' = [qVisible EXCEPT ![m] = TRUE]
    /\ UNCHANGED <<qContent, qInQueue, qReceipt, qDequeued, dlqConfigured, dlq,
                   qLog, hedgeCalled, processedOk, wPc, wMsg, wReason, wResult>>
    /\ UNCHANGED <<rVars, mVars, fVars>>

QNext ==
    \/ \E w \in Workers, o \in OutcomeSeqs, m \in Msgs \cup {NoMsg} : Receive(w, o, m)
    \/ \E w \in Workers, o \in OutcomeSeqs : DeleteAndParse(w, o)
    \/ \E w \in Workers, out \in ProcessOutcomes : Process(w, out)
    \/ \E w \in Workers, o \in OutcomeSeqs : DeadLetter(w, o)
    \/ \E w \in Workers : RunAgain(w)
    \/ \E m \in Msgs : VisibilityTimeout(m)

(***************************************************************************)
(* Monitor passes: market calendar, store documents, queue messages        *)
(***************************************************************************)

\* Minutes the clock advances past the start of the observed period.
MaxMinutes == 2
\* Largest number of FastCandidate documents the store accepts.
MaxCandidates == 1
\* Largest number of messages the monitor queue accepts.
MaxSent == 2

\* _parse_watchlist of the configured MARKET_MONITOR_WATCHLIST.
watchlist == <<"AAPL">>
Tickers == {watchlist[i] : i \in 1..Len(watchlist)}

\* datetime.time(h, m) as the minute of the Eastern day.
time(h, m) == h * 60 + m

\* No timestamp: a local that is None, a field that is absent.
NoTime == -1

\* The dates a pass can run on: weekday() and membership of the holiday and
\* early-close tables.
RegularDay == [weekday |-> 0, holiday |-> FALSE, early_close |-> FALSE]
EarlyCloseDay == [weekday |-> 4, holiday |-> FALSE, early_close |-> TRUE]
Holiday == [weekday |-> 2, holiday |-> TRUE, early_close |-> FALSE]
Saturday == [weekday |-> 5, holiday |-> FALSE, early_close |-> FALSE]
Sunday == [weekday |-> 6, holiday |-> FALSE, early_close |-> FALSE]

is_market_holiday(check_date) == check_date.holiday
is_early_close_day(check_date) == check_date.early_close

\* A calendar that closes at 16:00 on every trading day.
is_market_open_late_close(check_date, current_time) ==
    IF check_date.weekday >= 5 THEN FALSE
    ELSE IF check_date.holiday THEN FALSE
    ELSE time(9, 30) <= current_time /\ current_time <= time(16, 0)

\* market_calendar.is_market_open, on a date and a minute of that date.
is_market_open(check_date, current_time) ==
    IF check_date.weekday >= 5 THEN FALSE
    ELSE IF is_market_holiday(check_date) THEN FALSE
    ELSE LET market_open_time == time(9, 30)
             market_close_time == IF is_early_close_day(check_date)
                                  THEN time(13, 0) ELSE time(16, 0)
         IN  market_open_time <= current_time /\ current_time <= market_close_time

\* A gate that looks at the day of the week only.
_is_market_hours_weekdays_only(check_date, current_time) ==
    check_date.weekday < 5

\* function_app._is_market_hours.
_is_market_hours(check_date, current_time) ==
    is_market_open(check_date, current_time)

\* The periods observed: a date, the minute the clock starts at and the
\* number of minutes it advances.  GateSessions are the periods around the
\* opening and the closes and on the days without a session; Sessions adds
\* a period inside the regular session.
GateSessions ==
    { <<RegularDay, time(9, 29), 1>>, <<RegularDay, time(16, 0), 1>>,
      <<EarlyCloseDay, time(13, 0), 1>>, <<Holiday, time(11, 0), 1>>,
      <<Saturday, time(11, 0), 1>>, <<Sunday, time(11, 0), 1>> }
Sessions == GateSessions \cup { <<RegularDay, time(11, 0), MaxMinutes>> }

\* MARKET_MONITOR_COOLDOWN_SECONDS and FAST_MONITOR_COOLDOWN_SECONDS, in
\* minutes, as configured for the observed period.
cooldown_minutes == 2
fast_cooldown_minutes == 2
\* The main pass looks for candidates detected in the last 5 minutes, the
\* validation pass for candidates confirmed in the last 15 minutes.
candidate_lookback_minutes == 5
validation_lookback_minutes == 15
\* MARKET_MONITOR_MIN_CONFIDENCE (0.70), in hundredths.
min_confidence == 70
\* The preliminary confidence of a fast candidate, in hundredths:
\* round(min(instant_change / threshold, 1.0) * 0.65, 2) with
\* instant_change >= threshold.
fast_confidence == 65

\* The SignalResult enhanced_signal_detection returns for its reasons and the
\* mean of their scores, in hundredths: the priority from the number of
\* reasons and the confidence, triggered with at least one reason.
SignalResult(reasons, confidence) ==
    [triggered |-> Len(reasons) > 0, reasons |-> reasons,
     confidence |-> confidence,
     priority |-> IF Len(reasons) >= 4 /\ confidence > 80 THEN "critical"
                  ELSE IF Len(reasons) >= 3 /\ confidence > 70 THEN "high"
                  ELSE IF Len(reasons) >= 2 /\ confidence > 60 THEN "medium"
                  ELSE "low"]
NoSignal == SignalResult(<<>>, 0)

\* What enhanced_signal_detection returns in the observed period: no reason,
\* bollinger_extreme alone (0.7) or price_breakout alone (1.0).
EngineResults ==
    { NoSignal, SignalResult(<<"bollinger_extreme">>, 70),
      SignalResult(<<"price_breakout">>, 100) }

\* (fast_conf * 0.4) + (signal_result.confidence * 0.6), in thousandths.
combined_confidence(fast_conf, confidence) == 4 * fast_conf + 6 * confidence
\* round(x, 2) of a value in thousandths, in hundredths.
round2(thousandths) == (thousandths + 5) \div 10

\* "Update priority if combined confidence is higher": critical above 0.85,
\* high above 0.75, the engine's priority otherwise.
combined_priority(combined, priority) ==
    IF combined > 850 THEN "critical"
    ELSE IF combined > 750 THEN "high"
    ELSE priority

Statuses == {"pending_confirmation", "confirmed", "rejected_no_confirmation",
             "rejected_low_confidence", "validated", "invalidated"}

\* The document the fast pass stores: id f"{ticker}_fast_{epoch}".
candidate_payload(ticker, at) ==
    [id |-> <<ticker, at>>, ticker |-> ticker, detected_at |-> at,
     confidence |-> fast_confidence, status |-> "pending_confirmation",
     confirmed_at |-> NoTime, final_confidence |-> NoTime]

\* _compose_queue_payload: the fields of the analysis request that matter here.
_compose_queue_payload(ticker, triggered_at, signal_result, detection_method) ==
    [tickers |-> <<ticker>>, triggered_at |-> triggered_at,
     confidence |-> signal_result.confidence,
     priority |-> signal_result.priority,
     detection_method |-> detection_method,
     signals |-> signal_result.reasons]

\* CosmosCooldownStore.get_last_trigger: None when the record is missing or
\* the read fails.
get_last_trigger(ticker, read_ok) ==
    IF read_ok THEN cooldownRec[ticker] ELSE NoTime

\* A cooldown check that never holds a ticker back.
in_cooldown_never(last_trigger, at, window) == FALSE

\* "last_trigger and now_utc - last_trigger < cooldown_window".
in_cooldown(last_trigger, at, window) ==
    last_trigger # NoTime /\ at - last_trigger < window

Passes == {"fast_monitor", "market_monitor", "validation_monitor"}
\* A pass that is not running: it never ran or ran to its end, or its last
\* invocation returned at the market-hours gate or at a configuration error.
Rest == {"idle", "skipped", "aborted"}

\* What the environment can hold, and an environment with every setting.
Environments == [queue : BOOLEAN, store : BOOLEAN]
Configured == [queue |-> TRUE, store |-> TRUE]

\* _load_queue_client: "if not connection or not queue_name: raise
\* RuntimeError".
_load_queue_client(env) ==
    IF env.queue THEN "QueueClient" ELSE "RuntimeError"

\* _ensure_cosmos_store: "if not all([endpoint, key, database, container]):
\* raise RuntimeError".
_ensure_cosmos_store(env) ==
    IF env.store THEN "CosmosCooldownStore" ELSE "RuntimeError"

\* The local last_trigger of a main pass before get_last_trigger assigns it.
Unread == -2

IdleMain == [pc |-> "idle", now_utc |-> NoTime, idx |-> 0,
             fast_candidate |-> <<>>, signal |-> NoSignal,
             last_trigger |-> Unread]
IdleFast == [pc |-> "idle"]
IdleValidation == [pc |-> "idle", evaluated |-> {}]

MStart ==
    /\ today = RegularDay
    /\ sessionEnd = time(11, 0)
    /\ now = time(11, 0)
    /\ settings = Configured
    /\ cooldownRec = [t \in Tickers |-> NoTime]
    /\ cand = {}
    /\ sent = <<>>
    /\ mainPass = IdleMain
    /\ otherMain = IdleMain
    /\ fastPass = IdleFast
    /\ validationPass = IdleValidation

MInit(sessions) ==
    /\ \E s \in sessions : today = s[1] /\ now = s[2] /\ sessionEnd = s[2] + s[3]
    /\ settings = Configured
    /\ cooldownRec \in [Tickers -> {NoTime}]
    /\ cand = {}
    /\ sent = <<>>
    /\ mainPass = IdleMain
    /\ otherMain = IdleMain
    /\ fastPass = IdleFast
    /\ validationPass = IdleValidation

\* container.upsert_item: the document replaces the stored one with its id.
upsert_item(container, item) ==
    {c \in container : c.id # item.id} \cup {item}

\* The frame of the steps of the passes: what no pass of the timers writes.
mClock == <<today, sessionEnd, now, settings, otherMain>>
otherVars == <<rVars, qVars, fVars>>

(***************************************************************************)
(* market_monitor: the main pass                                           *)
(***************************************************************************)

\* "continue", and the end of the loop over the watchlist.
next_ticker(pass) ==
    IF pass.idx < Len(watchlist)
    THEN [IdleMain EXCEPT !.pc = "query", !.now_utc = pass.now_utc,
                          !.idx = pass.idx + 1]
    ELSE IdleMain

\* Invocation by the timer: the market-hours gate, then the queue client
\* and the store, each "except RuntimeError: ... return".
market_monitor_start ==
    /\ mainPass.pc \in Rest
    /\ mainPass' = IF ~_is_market_hours(today, now)
                   THEN [IdleMain EXCEPT !.pc = "skipped"]
                   ELSE IF _load_queue_client(settings) = "RuntimeError"
                   THEN [IdleMain EXCEPT !.pc = "aborted"]
                   ELSE IF _ensure_cosmos_store(settings) = "RuntimeError"
                   THEN [IdleMain EXCEPT !.pc = "aborted"]
                   ELSE [IdleMain EXCEPT !.pc = "query", !.now_utc = now, !.idx = 1]
    /\ UNCHANGED <<mClock, cooldownRec, cand, sent, fastPass, validationPass>>
    /\ UNCHANGED otherVars

\* "if not signal_result.triggered", "if signal_result.confidence <
\* min_confidence": the status a fast candidate is rejected with, or
\* "qualifying".
verdict(signal_result) ==
    IF ~signal_result.triggered THEN "rejected_no_confirmation"
    ELSE IF signal_result.confidence < min_confidence THEN "rejected_low_confidence"
    ELSE "qualifying"

\* One ticker of the main pass, up to its first write: the query for a
\* pending fast candidate, the price fetch and the engine.  Without a fast
\* candidate the decision on the signal follows at once.
market_monitor_query(query_ok, fetch_ok, signal_result) ==
    /\ mainPass.pc = "query"
    /\ LET ticker == watchlist[mainPass.idx]
           lookback_time == mainPass.now_utc - candidate_lookback_minutes
           candidates ==
               IF query_ok
               THEN {c \in cand : /\ c.ticker = ticker
                                  /\ c.status = "pending_confirmation"
                                  /\ c.detected_at >= lookback_time}
               ELSE {}
           found == IF candidates = {} THEN {<<>>} ELSE {<<c>> : c \in candidates}
       IN  \E fast_candidate \in found :
               mainPass' =
                   IF ~fetch_ok THEN next_ticker(mainPass)
                   ELSE IF fast_candidate # <<>>
                   THEN [mainPass EXCEPT !.fast_candidate = fast_candidate,
                                         !.signal = signal_result,
                                         !.pc = "confirm"]
                   ELSE IF verdict(signal_result) = "qualifying"
                   THEN [mainPass EXCEPT !.signal = signal_result, !.pc = "cooldown"]
                   ELSE next_ticker(mainPass)
    /\ UNCHANGED <<mClock, cooldownRec, cand, sent, fastPass, validationPass>>
    /\ UNCHANGED otherVars

\* The combined confidence, and the candidate marked as confirmed.
market_monitor_confirm(upsert_ok) ==
    /\ mainPass.pc = "confirm"
    /\ LET fast_candidate == mainPass.fast_candidate[1]
           combined == combined_confidence(fast_candidate.confidence,
                                           mainPass.signal.confidence)
           confirmed == [fast_candidate EXCEPT !.status = "confirmed",
                                               !.confirmed_at = mainPass.now_utc,
                                               !.final_confidence = combined]
           signal_result == [mainPass.signal EXCEPT
                                !.confidence = round2(combined),
                                !.priority = combined_priority(combined, @)]
       IN  /\ mainPass' = [mainPass EXCEPT
                              !.fast_candidate = <<confirmed>>,
                              !.signal = signal_result,
                              !.pc = IF verdict(signal_result) = "qualifying"
                                     THEN "cooldown" ELSE "reject"]
           /\ cand' = IF upsert_ok THEN upsert_item(cand, confirmed) ELSE cand
    /\ UNCHANGED <<mClock, cooldownRec, sent, fastPass, validationPass>>
    /\ UNCHANGED otherVars

\* The fast candidate of a signal that did not trigger, or whose confidence
\* is too low, marked as rejected.
market_monitor_reject(upsert_ok) ==
    /\ mainPass.pc = "reject"
    /\ LET rejected == [mainPass.fast_candidate[1] EXCEPT
                           !.status = verdict(mainPass.signal)]
       IN  cand' = IF upsert_ok THEN upsert_item(cand, rejected) ELSE cand
    /\ mainPass' = next_ticker(mainPass)
    /\ UNCHANGED <<mClock, cooldownRec, sent, fastPass, validationPass>>
    /\ UNCHANGED otherVars

\* The cooldown check before the enqueue.
market_monitor_cooldown(read_ok) ==
    /\ mainPass.pc = "cooldown"
    /\ LET ticker == watchlist[mainPass.idx]
           last_trigger == get_last_trigger(ticker, read_ok)
       IN  mainPass' = IF in_cooldown(last_trigger, mainPass.now_utc, cooldown_minutes)
                       THEN next_ticker(mainPass)
                       ELSE [mainPass EXCEPT !.pc = "send",
                                             !.last_trigger = last_trigger]
    /\ UNCHANGED <<mClock, cooldownRec, cand, sent, fastPass, validationPass>>
    /\ UNCHANGED otherVars

\* A try block that writes the record although send_message raised.
record_despite_failed_send(send_ok, upsert_ok, ticker, triggered_at) ==
    IF upsert_ok THEN [cooldownRec EXCEPT ![ticker] = triggered_at]
    ELSE cooldownRec

\* The CooldownRecords after "queue_client.send_message(...)" followed by
\* "cooldown_store.upsert_trigger(ticker, now_utc)" in one try block: an
\* exception of send_message skips the upsert, and upsert_trigger swallows
\* the store's error.
record_after_send(send_ok, upsert_ok, ticker, triggered_at) ==
    IF send_ok /\ upsert_ok THEN [cooldownRec EXCEPT ![ticker] = triggered_at]
    ELSE cooldownRec

\* send_message and, when it returned, upsert_trigger.
market_monitor_send(send_ok, upsert_ok) ==
    /\ mainPass.pc = "send"
    /\ send_ok => Len(sent) < MaxSent
    /\ LET ticker == watchlist[mainPass.idx]
           detection_method == IF mainPass.fast_candidate # <<>>
                               THEN "fast_confirm" ELSE "enhanced"
           payload == _compose_queue_payload(ticker, mainPass.now_utc,
                                             mainPass.signal, detection_method)
       IN  /\ sent' = IF send_ok THEN Append(sent, payload) ELSE sent
           /\ cooldownRec' = record_after_send(send_ok, upsert_ok, ticker,
                                               mainPass.now_utc)
    /\ mainPass' = next_ticker(mainPass)
    /\ UNCHANGED <<mClock, cand, fastPass, validationPass>>
    /\ UNCHANGED otherVars

(***************************************************************************)
(* fast_monitor: the fast pass                                             *)
(***************************************************************************)

\* What one ticker of the fast pass meets: a valid quote with at least 5
\* bars, an instant change at or above the threshold, a cooldown read that
\* succeeds, a candidate upsert that succeeds.
FastInputs == [quote_ok : BOOLEAN, moved : BOOLEAN, read_ok : BOOLEAN,
               upsert_ok : BOOLEAN]

\* The fast pass stores a candidate for watchlist[i].
fast_stores(i, input, now_utc) ==
    /\ input.quote_ok
    /\ input.moved
    /\ ~in_cooldown(get_last_trigger(watchlist[i], input.read_ok), now_utc,
                    fast_cooldown_minutes)
    /\ input.upsert_ok

\* One invocation by the timer: the market-hours gate, the store ("except
\* RuntimeError: ... return") and the loop over the watchlist.  The tickers
\* do not share a document, and the pass only reads the CooldownRecord and
\* writes new candidate documents, so the invocation is one step.  The id of
\* a candidate carries the second of the invocation and the timer fires once
\* a minute, so an invocation never stores under an id the store already
\* holds.  The store accepts up to capacity documents.
fast_monitor(inputs, capacity) ==
    /\ fastPass.pc \in Rest
    /\ LET now_utc == now
           stored == {candidate_payload(watchlist[i], now_utc) :
                        i \in {k \in 1..Len(watchlist) :
                                  fast_stores(k, inputs[k], now_utc)}}
       IN  IF ~_is_market_hours(today, now_utc)
           THEN /\ fastPass' = [pc |-> "skipped"]
                /\ cand' = cand
           ELSE IF _ensure_cosmos_store(settings) = "RuntimeError"
           THEN /\ fastPass' = [pc |-> "aborted"]
                /\ cand' = cand
           ELSE /\ \A d \in stored : \A c \in cand : c.id # d.id
                /\ Cardinality(cand \cup stored) <= capacity
                /\ fastPass' = IdleFast
                /\ cand' = cand \cup stored
    /\ UNCHANGED <<mClock, cooldownRec, sent, mainPass, validationPass>>
    /\ UNCHANGED otherVars

(***************************************************************************)
(* validation_monitor: the validation pass                                 *)
(***************************************************************************)

\* The message the validation pass sends for an invalidated signal.
exit_payload(ticker, triggered_at) ==
    [action |-> "exit_position", tickers |-> <<ticker>>,
     reason |-> "signal_invalidated", triggered_at |-> triggered_at,
     detection_method |-> "validation_exit"]

\* The exit messages of the signals in docs, in the order of the loop.
RECURSIVE exit_messages(_, _)
exit_messages(docs, triggered_at) ==
    IF docs = {} THEN <<>>
    ELSE LET signal_doc == CHOOSE c \in docs : TRUE
         IN  <<exit_payload(signal_doc.ticker, triggered_at)>>
                 \o exit_messages(docs \ {signal_doc}, triggered_at)

\* A loop body in which calculate_rsi is defined and the score falls below
\* the exit threshold.
validation_outcome_scored(enough_bars) ==
    IF ~enough_bars THEN "insufficient_data" ELSE "invalidated"

\* How the loop body ends for a confirmed signal.  With fewer than 6 bars
\* it continues.  Otherwise it reaches "rsi = calculate_rsi(prices,
\* period=14)", a name function_app neither defines nor imports: the
\* NameError is caught by the except of the loop body, which logs it and
\* continues, before any score is compared with the exit threshold.
validation_outcome(enough_bars) ==
    IF ~enough_bars THEN "insufficient_data" ELSE "NameError"

\* One invocation by the timer: the market-hours gate, the store ("except
\* RuntimeError: ... return"), the queue client ("except RuntimeError: ...
\* queue_client = None"), the query for the candidates confirmed in the last
\* 15 minutes and the loop over them.  A signal that ends as invalidated has
\* its exit message sent "if queue_client", and a signal that ends as
\* invalidated or validated is upserted; both calls swallow their exception.
validation_monitor(query_ok, enough_bars, send_ok, upsert_ok) ==
    /\ validationPass.pc \in Rest
    /\ LET now_utc == now
           lookback_time == now_utc - validation_lookback_minutes
           queue_client == _load_queue_client(settings) # "RuntimeError"
           confirmed_signals ==
               IF query_ok
               THEN {c \in cand : c.status = "confirmed" /\ c.confirmed_at >= lookback_time}
               ELSE {}
           outcome == validation_outcome(enough_bars)
           evaluated == {c \in confirmed_signals : outcome # "insufficient_data"}
           scored == {c \in evaluated : outcome \in {"invalidated", "validated"}}
           exits == {c \in scored : outcome = "invalidated" /\ queue_client /\ send_ok}
           upserted == {c \in scored : upsert_ok}
       IN  IF ~_is_market_hours(today, now_utc)
           THEN /\ validationPass' = [IdleValidation EXCEPT !.pc = "skipped"]
                /\ UNCHANGED <<cand, sent>>
           ELSE IF _ensure_cosmos_store(settings) = "RuntimeError"
           THEN /\ validationPass' = [IdleValidation EXCEPT !.pc = "aborted"]
                /\ UNCHANGED <<cand, sent>>
           ELSE /\ validationPass' =
                       [IdleValidation EXCEPT !.evaluated = {c.id : c \in evaluated}]
                /\ sent' = sent \o exit_messages(exits, now_utc)
                /\ Len(sent') <= MaxSent
                /\ cand' = {c \in cand : c \notin upserted}
                               \cup {[c EXCEPT !.status = outcome] : c \in upserted}
    /\ UNCHANGED <<mClock, cooldownRec, mainPass, fastPass>>
    /\ UNCHANGED otherVars

\* A minute passes.  The clock advances between the invocations: each ends
\* within the minute it started in.
Tick ==
    /\ now < sessionEnd
    /\ mainPass.pc \in Rest
    /\ now' = now + 1
    /\ UNCHANGED <<today, sessionEnd, settings, cooldownRec, cand, sent, mainPass,
                   otherMain, fastPass, validationPass>>
    /\ UNCHANGED otherVars

(***************************************************************************)
(* The passes of one minute over a store that earlier minutes filled: the  *)
(* main pass has passed its market-hours gate, the fast and the validation *)
(* pass run beside it                                                      *)
(***************************************************************************)

\* Largest number of pending FastCandidate documents the store holds when
\* the observed minute starts.
MaxPending == 2

\* The minute observed, inside the regular session.
PassMinute == time(11, 5)

\* What enhanced_signal_detection returns in the observed minute:
\*   no reason;
\*   a gap with score 0.74 or 0.76 and bollinger_extreme (0.7): 0.72, 0.73;
\*   price_breakout (1.0), rapid_movement (0.9), a VWAP deviation (0.75) and
\*   bollinger_extreme (0.7): 0.84;
\*   price_breakout alone: 1.0.
PassEngineResults ==
    { NoSignal,
      SignalResult(<<"gap_up", "bollinger_extreme">>, 72),
      SignalResult(<<"gap_up", "bollinger_extreme">>, 73),
      SignalResult(<<"price_breakout", "rapid_movement", "above_vwap",
                     "bollinger_extreme">>, 84),
      SignalResult(<<"price_breakout">>, 100) }

\* The documents fast passes of earlier minutes stored for the first ticker
\* of the watchlist and no main pass has handled yet: the fast pass runs
\* every minute and its cooldown looks at the last analysis request, not at
\* the last candidate, so consecutive fast passes each store a candidate.
\* The oldest is outside the main pass's lookback.
PendingCandidates ==
    {candidate_payload(watchlist[1], PassMinute - age) :
        age \in {1, 2, candidate_lookback_minutes + 1}}

\* The last trigger of a ticker when the minute starts: none, one older than
\* the cooldown of the main pass, one a minute old.
LastTriggers == {NoTime, PassMinute - 5, PassMinute - 1}

PInit ==
    /\ today = RegularDay
    /\ now = PassMinute
    /\ sessionEnd = PassMinute
    /\ settings = Configured
    /\ cooldownRec \in [Tickers -> LastTriggers]
    /\ cand \in {docs \in SUBSET PendingCandidates : Cardinality(docs) <= MaxPending}
    /\ sent = <<>>
    /\ mainPass = [IdleMain EXCEPT !.pc = "query", !.now_utc = PassMinute, !.idx = 1]
    /\ fastPass = IdleFast
    /\ validationPass = IdleValidation

\* The timer of the main pass fires once in the minute.
PNext ==
    \/ \E query_ok, fetch_ok \in BOOLEAN, signal_result \in PassEngineResults :
           market_monitor_query(query_ok, fetch_ok, signal_result)
    \/ \E upsert_ok \in BOOLEAN : market_monitor_confirm(upsert_ok)
    \/ \E upsert_ok \in BOOLEAN : market_monitor_reject(upsert_ok)
    \/ \E read_ok \in BOOLEAN : market_monitor_cooldown(read_ok)
    \/ \E send_ok, upsert_ok \in BOOLEAN : market_monitor_send(send_ok, upsert_ok)
    \/ \E inputs \in [1..Len(watchlist) -> FastInputs] : fast_monitor(inputs, MaxCandidates)
    \/ \E query_ok, enough_bars, send_ok, upsert_ok \in BOOLEAN :
           validation_monitor(query_ok, enough_bars, send_ok, upsert_ok)

(***************************************************************************)
(* The passes of one minute under settings that change between the         *)
(* invocations                                                             *)
(***************************************************************************)

\* The settings of the function app are changed while no main pass runs;
\* every invocation reads them anew with os.getenv.
SetEnvironment(env) ==
    /\ mainPass.pc \in Rest
    /\ env # settings
    /\ settings' = env
    /\ UNCHANGED <<today, sessionEnd, now, cooldownRec, cand, sent, mainPass,
                   otherMain, fastPass, validationPass>>
    /\ UNCHANGED otherVars

ConfigNext ==
    \/ market_monitor_start
    \/ \E query_ok, fetch_ok \in BOOLEAN, signal_result \in EngineResults :
           market_monitor_query(query_ok, fetch_ok, signal_result)
    \/ \E upsert_ok \in BOOLEAN : market_monitor_confirm(upsert_ok)
    \/ \E upsert_ok \in BOOLEAN : market_monitor_reject(upsert_ok)
    \/ \E read_ok \in BOOLEAN : market_monitor_cooldown(read_ok)
    \/ \E send_ok, upsert_ok \in BOOLEAN : market_monitor_send(send_ok, upsert_ok)
    \/ \E inputs \in [1..Len(watchlist) -> FastInputs] :
           fast_monitor(inputs, MaxCandidates)
    \/ \E query_ok, enough_bars, send_ok, upsert_ok \in BOOLEAN :
           validation_monitor(query_ok, enough_bars, send_ok, upsert_ok)
    \/ \E env \in Environments : SetEnvironment(env)

(***************************************************************************)
(* The fast and the main pass in the minutes of one fast cooldown window,   *)
(* over a store with room for a candidate of every minute                  *)
(***************************************************************************)

\* Largest number of FastCandidate documents the store accepts in the
\* window.
MaxStored == 2

\* The window: the minutes from 11:00 that lie less than the fast cooldown
\* apart.
FastWindow == { <<RegularDay, time(11, 0), fast_cooldown_minutes - 1>> }

WindowNext ==
    \/ market_monitor_start
    \/ \E query_ok, fetch_ok \in BOOLEAN, signal_result \in EngineResults :
           market_monitor_query(query_ok, fetch_ok, signal_result)
    \/ \E upsert_ok \in BOOLEAN : market_monitor_confirm(upsert_ok)
    \/ \E upsert_ok \in BOOLEAN : market_monitor_reject(upsert_ok)
    \/ \E read_ok \in BOOLEAN : market_monitor_cooldown(read_ok)
    \/ \E send_ok, upsert_ok \in BOOLEAN : market_monitor_send(send_ok, upsert_ok)
    \/ \E inputs \in [1..Len(watchlist) -> FastInputs] :
           fast_monitor(inputs, MaxStored)
    \/ Tick

(***************************************************************************)
(* Two invocations of market_monitor in one minute: beside the main pass   *)
(* of that minute, a second invocation that has detected a qualifying      *)
(* signal for the first ticker and stands before its cooldown check        *)
(***************************************************************************)

\* The invocation beside the main pass, before "last_trigger =
\* cooldown_store.get_last_trigger(ticker)".
DetectedInvocations ==
    {[IdleMain EXCEPT !.pc = "cooldown", !.now_utc = PassMinute, !.idx = 1,
                      !.signal = signal_result] :
        signal_result \in {r \in PassEngineResults : verdict(r) = "qualifying"}}

\* The cooldown check of the second invocation.
other_monitor_cooldown(read_ok) ==
    /\ otherMain.pc = "cooldown"
    /\ LET ticker == watchlist[otherMain.idx]
           last_trigger == get_last_trigger(ticker, read_ok)
       IN  otherMain' = IF in_cooldown(last_trigger, otherMain.now_utc, cooldown_minutes)
                        THEN next_ticker(otherMain)
                        ELSE [otherMain EXCEPT !.pc = "send",
                                               !.last_trigger = last_trigger]
    /\ UNCHANGED <<today, sessionEnd, now, settings, cooldownRec, cand, sent,
                   mainPass, fastPass, validationPass>>
    /\ UNCHANGED otherVars

\* send_message and upsert_trigger of the second invocation.
other_monitor_send(send_ok, upsert_ok) ==
    /\ otherMain.pc = "send"
    /\ send_ok => Len(sent) < MaxSent
    /\ LET ticker == watchlist[otherMain.idx]
           payload == _compose_queue_payload(ticker, otherMain.now_utc,
                                             otherMain.signal, "enhanced")
       IN  /\ sent' = IF send_ok THEN Append(sent, payload) ELSE sent
           /\ cooldownRec' = record_after_send(send_ok, upsert_ok, ticker,
                                               otherMain.now_utc)
    /\ otherMain' = next_ticker(otherMain)
    /\ UNCHANGED <<today, sessionEnd, now, settings, cand, mainPass, fastPass,
                   validationPass>>
    /\ UNCHANGED otherVars

\* The store answers every read and every write of a CooldownRecord, so
\* that an invocation misses a record only by reading before it is written.
InterleavedNext ==
    \/ \E query_ok, fetch_ok \in BOOLEAN, signal_result \in PassEngineResults :
           market_monitor_query(query_ok, fetch_ok, signal_result)
    \/ \E upsert_ok \in BOOLEAN : market_monitor_confirm(upsert_ok)
    \/ \E upsert_ok \in BOOLEAN : market_monitor_reject(upsert_ok)
    \/ market_monitor_cooldown(TRUE)
    \/ \E send_ok \in BOOLEAN : market_monitor_send(send_ok, TRUE)
    \/ other_monitor_cooldown(TRUE)
    \/ \E send_ok \in BOOLEAN : other_monitor_send(send_ok, TRUE)

MNext ==
    \/ market_monitor_start
    \/ \E query_ok, fetch_ok \in BOOLEAN, signal_result \in EngineResults :
           market_monitor_query(query_ok, fetch_ok, signal_result)
    \/ \E upsert_ok \in BOOLEAN : market_monitor_confirm(upsert_ok)
    \/ \E upsert_ok \in BOOLEAN : market_monitor_reject(upsert_ok)
    \/ \E read_ok \in BOOLEAN : market_monitor_cooldown(read_ok)
    \/ \E send_ok, upsert_ok \in BOOLEAN : market_monitor_send(send_ok, upsert_ok)
    \/ \E inputs \in [1..Len(watchlist) -> FastInputs] : fast_monitor(inputs, MaxCandidates)
    \/ \E query_ok, enough_bars, send_ok, upsert_ok \in BOOLEAN :
           validation_monitor(query_ok, enough_bars, send_ok, upsert_ok)
    \/ Tick


(***************************************************************************)
(* Market calendar: is_market_open on a UTC timestamp                      *)
(***************************************************************************)

\* Two weeks of the calendar, each from a Sunday to the next Sunday:
\*   2025-11-23 .. 2025-11-30, with Thanksgiving (Thursday the 27th, a
\*   holiday) and the day after it (an early close), in standard time;
\*   2025-06-29 .. 2025-07-06, with July 3rd (an early close) and July 4th
\*   (a holiday), in daylight saving time.
Weeks == {"2025-11", "2025-07"}

TradingDay(weekday) == [weekday |-> weekday, holiday |-> FALSE, early_close |-> FALSE]

\* date.weekday() and membership of ALL_HOLIDAYS and ALL_EARLY_CLOSE_DAYS of
\* the dates of a week.
dates(week) ==
    IF week = "2025-11"
    THEN << Sunday, TradingDay(0), TradingDay(1), TradingDay(2),
            [weekday |-> 3, holiday |-> TRUE, early_close |-> FALSE],
            [weekday |-> 4, holiday |-> FALSE, early_close |-> TRUE],
            Saturday, Sunday >>
    ELSE << Sunday, TradingDay(0), TradingDay(1), TradingDay(2),
            [weekday |-> 3, holiday |-> FALSE, early_close |-> TRUE],
            [weekday |-> 4, holiday |-> TRUE, early_close |-> FALSE],
            Saturday, Sunday >>

\* Minutes America/New_York is behind UTC in a week.
utcoffset(week) == IF week = "2025-11" THEN 300 ELSE 240

MinutesPerDay == 24 * 60

\* The UTC minutes of the day looked at: every full hour, and the minute the
\* session opens, the minutes it closes, and the minutes next to them.
UtcMinutes ==
    {60 * h : h \in 0..23} \cup
    {t + o : t \in {time(9, 29), time(9, 30), time(13, 0), time(13, 1),
                    time(16, 0), time(16, 1)},
             o \in {utcoffset(w) : w \in Weeks}}

\* An aware datetime in UTC: a day of a week (2 is its Monday) and a minute.
UtcStamps == [week : Weeks, day : 2..8, minute : UtcMinutes]
NoStamp == [week |-> "none", day |-> 0, minute |-> 0]

\* now.astimezone(EASTERN): the wall clock of New York, on the previous date
\* while UTC is less than the offset into its day.
astimezone(stamp) ==
    LET offset == utcoffset(stamp.week)
    IN  IF stamp.minute >= offset
        THEN [stamp EXCEPT !.minute = stamp.minute - offset]
        ELSE [stamp EXCEPT !.day = stamp.day - 1,
                         !.minute = stamp.minute + MinutesPerDay - offset]

\* market_calendar.is_market_open(now) for an aware datetime.
is_market_open_now(now_utc) ==
    LET eastern == astimezone(now_utc)
    IN  is_market_open(dates(eastern.week)[eastern.day], eastern.minute)

CalStart ==
    /\ calNow = NoStamp
    /\ calOpen = FALSE

\* A caller asks whether the market is open at a timestamp.
CheckMarketOpen(now_utc) ==
    /\ calNow' = now_utc
    /\ calOpen' = is_market_open_now(now_utc)
    /\ UNCHANGED <<rVars, qVars, mVars, bVars, sVars, dVars, vVars, tVars, lVars>>

CalNext == \E now_utc \in UtcStamps : CheckMarketOpen(now_utc)

(***************************************************************************)
(* Queue worker: _execute_with_backoff and _compute_backoff, step by step  *)
(***************************************************************************)

\* Largest QUEUE_MAX_ATTEMPTS looked at, and largest attempt number handed
\* to _compute_backoff.
MaxConfigAttempts == 5

\* QUEUE_BACKOFF_SECONDS and QUEUE_BACKOFF_MAX_SECONDS looked at, in seconds
\* (2 and 30 are the defaults).
BackoffBases == {0, 1, 2}
BackoffCaps == {0, 3, 30}

\* The settings of a worker: at least one attempt, no negative delay.
QueueConfig ==
    [max_attempts : 1..MaxConfigAttempts,
     base_backoff_seconds : BackoffBases,
     max_backoff_seconds : BackoffCaps]

\* random.uniform(0, base_backoff_seconds), in whole seconds.
Jitters(config) == 0..config.base_backoff_seconds

\* A delay that doubles without a cap.
_compute_backoff_uncapped(config, attempt, jitter) ==
    LET capped_attempt == Max(0, attempt - 1)
        delay == config.base_backoff_seconds * (2 ^ capped_attempt)
    IN  [attempt |-> attempt, delay |-> delay, jitter |-> jitter,
         total |-> delay + jitter]

\* QueueWorker._compute_backoff, with the value random.uniform returned.
_compute_backoff(config, attempt, jitter) ==
    LET capped_attempt == Max(0, attempt - 1)
        delay == config.base_backoff_seconds * (2 ^ capped_attempt)
        capped == Min(delay, config.max_backoff_seconds)
    IN  [attempt |-> attempt, delay |-> capped, jitter |-> jitter,
         total |-> capped + jitter]

NoDelay == [attempt |-> 0, delay |-> 0, jitter |-> 0, total |-> 0]

\* "if attempt > self.config.max_attempts".
attempts_exhausted_late(config, attempt) == attempt > config.max_attempts

\* "if attempt >= self.config.max_attempts".
attempts_exhausted(config, attempt) == attempt >= config.max_attempts

BDone == {"returned", "raised"}
BRest == {"idle"} \cup BDone

BStart ==
    /\ bConfig = [max_attempts |-> max_attempts, base_backoff_seconds |-> 2,
                  max_backoff_seconds |-> 30]
    /\ bPc = "idle"
    /\ bSuppress = FALSE
    /\ bAttempt = 0
    /\ bCalls = 0
    /\ bRetried = 0
    /\ bLast = "none"
    /\ bResult = "none"
    /\ bWarned = FALSE
    /\ bDelay = NoDelay

BInit ==
    /\ bConfig \in QueueConfig
    /\ bPc = "idle"
    /\ bSuppress = FALSE
    /\ bAttempt = 0
    /\ bCalls = 0
    /\ bRetried = 0
    /\ bLast = "none"
    /\ bResult = "none"
    /\ bWarned = FALSE
    /\ bDelay = NoDelay

bOthers == <<rVars, qVars, mVars, calVars, sVars, dVars, vVars, tVars, lVars>>

\* _execute_with_backoff is called: attempt = 0, then the first "attempt += 1".
ExecuteStart(suppress_errors) ==
    /\ bPc \in BRest
    /\ bPc' = "calling"
    /\ bSuppress' = suppress_errors
    /\ bAttempt' = 1
    /\ bCalls' = 0
    /\ bRetried' = 0
    /\ bLast' = "none"
    /\ bResult' = "none"
    /\ bWarned' = FALSE
    /\ UNCHANGED <<bConfig, bDelay>>
    /\ UNCHANGED bOthers

\* One pass of the try: func() returns or raises, and the except clauses
\* up to the call of time.sleep.
ExecuteCall(outcome, jitter) ==
    /\ bPc = "calling"
    /\ jitter \in Jitters(bConfig)
    /\ bCalls' = bCalls + 1
    /\ bLast' = outcome
    /\ bRetried' = IF outcome \in RETRYABLE_EXCEPTIONS THEN bRetried + 1 ELSE bRetried
    /\ IF outcome = "ok"
       THEN /\ bPc' = "returned"
            /\ bResult' = "value"
            /\ UNCHANGED <<bWarned, bDelay>>
       ELSE IF outcome \in RETRYABLE_EXCEPTIONS /\ ~attempts_exhausted(bConfig, bAttempt)
       THEN /\ bPc' = "sleeping"
            /\ bDelay' = _compute_backoff(bConfig, bAttempt, jitter)
            /\ UNCHANGED <<bResult, bWarned>>
       ELSE IF bSuppress
       THEN /\ bPc' = "returned"
            /\ bResult' = "None"
            /\ bWarned' = TRUE
            /\ UNCHANGED bDelay
       ELSE /\ bPc' = "raised"
            /\ bResult' = outcome
            /\ UNCHANGED <<bWarned, bDelay>>
    /\ UNCHANGED <<bConfig, bSuppress, bAttempt>>
    /\ UNCHANGED bOthers

\* time.sleep(delay) returns; the loop starts over with "attempt += 1".
ExecuteSleep ==
    /\ bPc = "sleeping"
    /\ bPc' = "calling"
    /\ bAttempt' = bAttempt + 1
    /\ UNCHANGED <<bConfig, bSuppress, bCalls, bRetried, bLast, bResult, bWarned, bDelay>>
    /\ UNCHANGED bOthers

\* _compute_backoff is called on its own, for any attempt number.
ComputeBackoff(attempt, jitter) ==
    /\ bPc \in BRest
    /\ jitter \in Jitters(bConfig)
    /\ bDelay' = _compute_backoff(bConfig, attempt, jitter)
    /\ UNCHANGED <<bConfig, bPc, bSuppress, bAttempt, bCalls, bRetried, bLast,
                   bResult, bWarned>>
    /\ UNCHANGED bOthers

BNext ==
    \/ \E suppress_errors \in BOOLEAN : ExecuteStart(suppress_errors)
    \/ \E outcome \in CallOutcomes, jitter \in BackoffBases : ExecuteCall(outcome, jitter)
    \/ ExecuteSleep
    \/ \E attempt \in 1..MaxConfigAttempts, jitter \in BackoffBases :
           ComputeBackoff(attempt, jitter)

(***************************************************************************)
(* Signal detection: enhanced_signal_detection                             *)
(***************************************************************************)

\* What the checks of enhanced_signal_detection compute from prices,
\* previous_day_close and the thresholds.  Changes and gaps are in tenths of
\* a percent, scores in ten-thousandths, the returned confidence in
\* hundredths.
\*   enough_bars           len(prices) >= 2
\*   percent_change        abs(percent_change), NoChange if previous.close <= 0
\*   percent_threshold     the argument (0.02 by default)
\*   volume_spike          len(prices) >= 10 and volume_ratio >= volume_multiplier
\*   rapid_movement        velocity >= velocity_threshold
\*   gap                   (latest.open - previous_day_close) / previous_day_close,
\*                         0 without a previous_day_close
\*   breakout_signal       what detect_intraday_breakout returned
\*   vwap_signal           what detect_vwap_deviation returned
\*   bollinger_extreme     bb_position <= 0.1 or bb_position >= 0.9
\*   volatility_expansion  what detect_volatility_expansion returned
NoChange == -1
PercentChanges == {NoChange, 0, 15, 20, 25}
PercentThresholds == {20, 30}
Gaps == {-19, 0, 14, 15, 19, 25}
SignalInputs ==
    [enough_bars : {TRUE}, percent_change : PercentChanges,
     percent_threshold : PercentThresholds, volume_spike : BOOLEAN,
     rapid_movement : BOOLEAN, gap : Gaps,
     breakout_signal : {"None", "breakout_high"},
     vwap_signal : {"None", "above_vwap"},
     bollinger_extreme : BOOLEAN, volatility_expansion : BOOLEAN]
    \cup
    [enough_bars : {FALSE}, percent_change : {NoChange},
     percent_threshold : PercentThresholds, volume_spike : {FALSE},
     rapid_movement : {FALSE}, gap : {0},
     breakout_signal : {"None"}, vwap_signal : {"None"},
     bollinger_extreme : {FALSE}, volatility_expansion : {FALSE}]

\* x.append(v) under a condition.
AppendIf(cond, v) == IF cond THEN <<v>> ELSE <<>>

\* "if previous.close > 0 ... if abs(percent_change) >= percent_threshold".
price_breakout(inp) ==
    inp.percent_change # NoChange /\ inp.percent_change >= inp.percent_threshold

\* detect_gap(latest, previous_day_close, threshold=0.015).
detect_gap(gap) ==
    IF gap >= 15 THEN "gap_up" ELSE IF gap <= -15 THEN "gap_down" ELSE "None"

\* The list reasons at the return.
reasons(inp) ==
    AppendIf(price_breakout(inp), "price_breakout")
    \o AppendIf(inp.volume_spike, "volume_spike")
    \o AppendIf(inp.rapid_movement, "rapid_movement")
    \o AppendIf(detect_gap(inp.gap) # "None", detect_gap(inp.gap))
    \o AppendIf(inp.breakout_signal # "None", inp.breakout_signal)
    \o AppendIf(inp.vwap_signal # "None", inp.vwap_signal)
    \o AppendIf(inp.bollinger_extreme, "bollinger_extreme")
    \o AppendIf(inp.volatility_expansion, "volatility_expansion")

\* Scores with half the score for the price check.
confidence_scores_half_price(inp) ==
    AppendIf(price_breakout(inp),
             Min((inp.percent_change * 5000) \div inp.percent_threshold, 5000))
    \o AppendIf(inp.volume_spike, 8000)
    \o AppendIf(inp.rapid_movement, 9000)
    \o AppendIf(detect_gap(inp.gap) # "None",
                (Min(Abs(inp.gap) * 500, 10000) * 95) \div 100)
    \o AppendIf(inp.breakout_signal # "None", 8500)
    \o AppendIf(inp.vwap_signal # "None", 7500)
    \o AppendIf(inp.bollinger_extreme, 7000)
    \o AppendIf(inp.volatility_expansion, 8000)

\* Scores without the one of the Bollinger check.
confidence_scores_no_bollinger(inp) ==
    AppendIf(price_breakout(inp),
             Min((inp.percent_change * 10000) \div inp.percent_threshold, 10000))
    \o AppendIf(inp.volume_spike, 8000)
    \o AppendIf(inp.rapid_movement, 9000)
    \o AppendIf(detect_gap(inp.gap) # "None",
                (Min(Abs(inp.gap) * 500, 10000) * 95) \div 100)
    \o AppendIf(inp.breakout_signal # "None", 8500)
    \o AppendIf(inp.vwap_signal # "None", 7500)
    \o AppendIf(inp.volatility_expansion, 8000)

\* The list confidence_scores at the return: min(ratio, 1.0) times the weight
\* of the check (a check that fired has a ratio of at least 1, but for the
\* gap, which fires from 1.5% on and is scored against 2%).
confidence_scores(inp) ==
    AppendIf(price_breakout(inp),
             Min((inp.percent_change * 10000) \div inp.percent_threshold, 10000))
    \o AppendIf(inp.volume_spike, 8000)
    \o AppendIf(inp.rapid_movement, 9000)
    \o AppendIf(detect_gap(inp.gap) # "None",
                (Min(Abs(inp.gap) * 500, 10000) * 95) \div 100)
    \o AppendIf(inp.breakout_signal # "None", 8500)
    \o AppendIf(inp.vwap_signal # "None", 7500)
    \o AppendIf(inp.bollinger_extreme, 7000)
    \o AppendIf(inp.volatility_expansion, 8000)

RECURSIVE sum(_)
sum(seq) == IF seq = <<>> THEN 0 ELSE Head(seq) + sum(Tail(seq))

\* round(overall_confidence, 2) of total / n ten-thousandths, in hundredths.
\* A mean that lies halfway between two hundredths is a binary float next to
\* the half: tie_up says on which side.
round_2(total, n, tie_up) ==
    LET den == 100 * n
        q == total \div den
        r == total % den
    IN  IF 2 * r < den THEN q
        ELSE IF 2 * r > den THEN q + 1
        ELSE IF tie_up THEN q + 1 ELSE q

\* "priority = ..." from len(reasons) and the overall confidence total / n
\* before it is rounded.
priority(count, total, n) ==
    IF count >= 4 /\ total > 8000 * n THEN "critical"
    ELSE IF count >= 3 /\ total > 7000 * n THEN "high"
    ELSE IF count >= 2 /\ total > 6000 * n THEN "medium"
    ELSE "low"

EmptySignal ==
    [triggered |-> FALSE, reasons |-> <<>>, confidence |-> 0, priority |-> "low"]

\* enhanced_signal_detection: the SignalResult (metrics left out).
enhanced_signal_detection(inp, tie_up) ==
    IF ~inp.enough_bars THEN EmptySignal
    ELSE LET scores == confidence_scores(inp)
             n == Len(scores)
             total == IF n > 0 THEN Min(sum(scores), 10000 * n) ELSE 0
         IN  [triggered |-> Len(reasons(inp)) > 0,
              reasons |-> reasons(inp),
              confidence |-> IF n > 0 THEN round_2(total, n, tie_up) ELSE 0,
              priority |-> IF n > 0 THEN priority(Len(reasons(inp)), total, n)
                           ELSE "low"]

NoInput == [enough_bars |-> FALSE]
NoCall == [input |-> NoInput, result |-> EmptySignal]

SStart ==
    /\ sInput = NoInput
    /\ sResult = EmptySignal
    /\ sScores = <<>>
    /\ sPrev = NoCall

sOthers == <<rVars, qVars, mVars, calVars, bVars, dVars, vVars, tVars, lVars>>

\* A pass calls enhanced_signal_detection on the bars of a ticker.
Detect(inp, tie_up) ==
    /\ sInput = NoInput
    /\ sInput' = inp
    /\ sResult' = enhanced_signal_detection(inp, tie_up)
    /\ sScores' = IF inp.enough_bars THEN confidence_scores(inp) ELSE <<>>
    /\ sPrev' = NoCall
    /\ UNCHANGED sOthers

\* The call is repeated on the same bars with another percent_threshold.
DetectAgain(percent_threshold, tie_up) ==
    /\ sInput # NoInput
    /\ sPrev = NoCall
    /\ percent_threshold # sInput.percent_threshold
    /\ LET inp == [sInput EXCEPT !.percent_threshold = percent_threshold]
       IN  /\ sInput' = inp
           /\ sResult' = enhanced_signal_detection(inp, tie_up)
           /\ sScores' = IF inp.enough_bars THEN confidence_scores(inp) ELSE <<>>
    /\ sPrev' = [input |-> sInput, result |-> sResult]
    /\ UNCHANGED sOthers

\* The results are dropped before the next ticker.
NextBars ==
    /\ sInput # NoInput
    /\ sInput' = NoInput
    /\ sResult' = EmptySignal
    /\ sScores' = <<>>
    /\ sPrev' = NoCall
    /\ UNCHANGED sOthers

SNext ==
    \/ \E inp \in SignalInputs, tie_up \in BOOLEAN : Detect(inp, tie_up)
    \/ \E percent_threshold \in PercentThresholds, tie_up \in BOOLEAN :
           DetectAgain(percent_threshold, tie_up)
    \/ NextBars

(***************************************************************************)
(* dispatch_paper_orders: the skip checks and the sub-order loop           *)
(***************************************************************************)

\* The keys of the decisions dictionary, in its order.
DispatchTickers == <<"AAPL", "MSFT">>

\* confidence_threshold or 60, which the broker is built with as well
\* (ALPACA_CONFIDENCE_THRESHOLD is not set).
confidence_threshold == 60

\* A raw decision; validates tells whether PortfolioDecision accepts it.
Decision(action, quantity, confidence, validates) ==
    [action |-> action, quantity |-> quantity, confidence |-> confidence,
     validates |-> validates]

RawDecisions ==
    { Decision("buy", MaxShares, 80, TRUE),
      Decision("short", MaxShares, 80, TRUE),
      Decision("sell", 1, 80, TRUE),
      Decision("cover", 1, 80, TRUE),
      Decision("hold", 0, 80, TRUE),
      Decision("buy", 0, 80, TRUE),
      Decision("buy", 1, 50, TRUE),
      Decision("liquidate", 1, 80, TRUE),
      Decision("liquidate", 1, 80, FALSE) }

\* PortfolioDecision.model_validate: raises ValidationError or returns.
model_validate(raw_decision) == raw_decision.validates

\* position.qty the broker reports for a ticker, in half shares.
DispatchQtys == {-2, -1, 0, 2}

\* remaining_position_limit of the risk manager and the current price.
RiskLimits == {0, 1, 5}
Prices == {0, 2}

\* What client.submit_order does with a request: it returns, or raises.
SubmitOutcomes == {"accepted", "insufficient buying power"}

None == "None"

\* BrokerOrder.as_record, with the step of the reconciliation metadata
\* (0 for a record without metadata).
OrderRecord(ticker, action, quantity, broker_order, step) ==
    [ticker |-> ticker, action |-> action, quantity |-> quantity,
     status |-> broker_order.status, error |-> broker_order.error,
     dry_run |-> broker_order.dry_run, step |-> step]

\* The fields of a BrokerOrder that differ from one return to the other.
BrokerOrder(status, error, dry_run) ==
    [status |-> status, error |-> error, dry_run |-> dry_run]

\* The checks of submit_order that return before the client is called.
submit_order_skips(decision) ==
    IF decision.action \notin Actions
    THEN BrokerOrder("skipped", "Unsupported action", FALSE)
    ELSE IF decision.quantity <= 0
    THEN BrokerOrder("skipped", "Non-positive quantity", FALSE)
    ELSE IF decision.confidence < confidence_threshold
    THEN BrokerOrder("skipped_confidence", "Decision confidence below threshold", FALSE)
    ELSE BrokerOrder("none", None, FALSE)

\* A wrong broker that looks at its client only, not at dry_run.
reaches_client_in_dry_run(decision, dry_run, client) ==
    submit_order_skips(decision).status = "none" /\ client

\* The call gets as far as self._client.submit_order.
reaches_client(decision, dry_run, client) ==
    submit_order_skips(decision).status = "none" /\ ~(dry_run \/ ~client)

\* PaperBroker.submit_order: the status and the error of the BrokerOrder.
submit_order(decision, dry_run, client, outcome) ==
    LET skip == submit_order_skips(decision)
    IN  IF skip.status # "none" THEN skip
        ELSE IF ~reaches_client(decision, dry_run, client)
        THEN BrokerOrder("accepted_dry_run", None, TRUE)
        ELSE IF outcome = "accepted" THEN BrokerOrder("accepted", None, FALSE)
        ELSE BrokerOrder("error", outcome, FALSE)

\* The checks of dispatch_paper_orders on one decision, up to the
\* reconciliation: the loop continues with the next ticker (for a cause),
\* appends a rejected order, or has sub-orders to submit.
Continue(cause) == [outcome |-> "continue", cause |-> cause, orders |-> <<>>]

\* A wrong check that lets a short on a non-shortable ticker through.
rejects_short_never(action, shortable) == FALSE

\* 'if action == "short": ... if not shortable_info["shortable"]'.
rejects_short(action, shortable) == action = "short" /\ ~shortable

\* The decision gets as far as broker.check_shortable.
asks_shortable(raw_decision) ==
    /\ model_validate(raw_decision)
    /\ raw_decision.action = "short"
    /\ raw_decision.quantity > 0
    /\ raw_decision.confidence >= confidence_threshold

check_decision(raw_decision, current_position, shortable, remaining_limit, price) ==
    LET action == raw_decision.action
        requested_quantity == raw_decision.quantity
        limited == remaining_limit > 0 /\ price > 0
        max_qty == IF limited THEN remaining_limit \div price ELSE 0
        allowed_quantity == IF limited THEN Min(requested_quantity, max_qty)
                            ELSE requested_quantity
        reconciled_orders == _reconcile_position(current_position, action, allowed_quantity)
    IN  IF ~model_validate(raw_decision) THEN Continue("invalid decision")
        ELSE IF action = "hold" THEN Continue("hold")
        ELSE IF requested_quantity <= 0 THEN Continue("non-positive quantity")
        ELSE IF raw_decision.confidence < confidence_threshold
        THEN Continue("confidence below threshold")
        ELSE IF rejects_short(action, shortable)
        THEN [outcome |-> "rejected", cause |-> "not shortable", orders |-> <<>>]
        ELSE IF limited /\ max_qty <= 0 THEN Continue("risk limit allows zero shares")
        ELSE IF reconciled_orders = <<>> THEN Continue("no orders after reconciliation")
        ELSE [outcome |-> "reconcile", cause |-> "none", orders |-> reconciled_orders]

\* A wrong sub-order loop that leaves the sequence at a failed sub-order.
more_sub_orders_stop_on_error(idx, total, status) == idx < total /\ status # "error"

\* for idx, order_spec in enumerate(reconciled_orders): the loop goes on
\* to the next sub-order whatever the status of the order before.
more_sub_orders(idx, total, status) == idx < total

\* "delay_seconds = 3.0".
delay_seconds == 3

\* A wrong sub-order loop that lets an order settle only if it did not fail.
settles_unless_error(idx, total, status) == idx < total - 1 /\ status # "error"

\* "if idx < len(reconciled_orders) - 1": time.sleep(delay_seconds) follows
\* the call of submit_order, which returns a BrokerOrder for every outcome.
settles(idx, total, status) == idx < total - 1

SubOrder(ticker, order_spec) ==
    [ticker |-> ticker, action |-> order_spec.action, quantity |-> order_spec.quantity]

RECURSIVE SubOrders(_, _)
SubOrders(ticker, reconciled_orders) ==
    IF reconciled_orders = <<>> THEN <<>>
    ELSE <<SubOrder(ticker, Head(reconciled_orders))>>
         \o SubOrders(ticker, Tail(reconciled_orders))

\* The dispatch variables before any call, with one decision to hold.
DStart ==
    /\ dPc = "ticker"
    /\ dDecisions = <<Decision("hold", 0, 80, TRUE)>>
    /\ dDryRun = FALSE
    /\ dClient = TRUE
    /\ dReads = {}
    /\ dTicker = 1
    /\ dReconciled = <<>>
    /\ dIdx = 0
    /\ dOrders = <<>>
    /\ dStore = <<>>
    /\ dLog = <<>>
    /\ dEmitted = <<>>
    /\ dCalls = <<>>
    /\ dSlept = <<>>
    /\ dShortable = <<>>

\* dispatch_paper_orders is called with one decision per ticker.
DInit ==
    /\ dPc = "ticker"
    /\ dDecisions \in UNION { [1..n -> RawDecisions] : n \in 1..Len(DispatchTickers) }
    /\ dDryRun \in BOOLEAN
    /\ dClient \in BOOLEAN
    /\ dReads = {}
    /\ dTicker = 1
    /\ dReconciled = <<>>
    /\ dIdx = 0
    /\ dOrders = <<>>
    /\ dStore = <<>>
    /\ dLog = <<>>
    /\ dEmitted = <<>>
    /\ dCalls = <<>>
    /\ dSlept = <<>>
    /\ dShortable = <<>>

dOthers == <<rVars, qVars, mVars, calVars, bVars, sVars, vVars, tVars, lVars>>

\* The for loop over decisions.items() moves to the next ticker, or the
\* function returns orders.
NextTicker ==
    /\ dTicker' = dTicker + 1
    /\ dPc' = IF dTicker + 1 > Len(dDecisions) THEN "returned" ELSE "ticker"
    /\ dReconciled' = <<>>
    /\ dIdx' = 0

\* A read of the TradingClient for a ticker.
Read(ticker, call) == [ticker |-> ticker, call |-> call]

\* The reads of the client one iteration makes before it leaves the checks:
\* get_current_position and check_shortable read when there is a client.
client_reads(ticker, check, raw_decision, client) ==
    IF ~client \/ check.cause \in {"invalid decision", "hold", "non-positive quantity",
                                  "confidence below threshold"}
    THEN {}
    ELSE {Read(ticker, "get_open_position")} \cup
         (IF raw_decision.action = "short" THEN {Read(ticker, "get_asset")} ELSE {})

\* One iteration of the loop over the decisions, up to the sub-order loop.
\* Without a client the position is flat and every ticker shortable.
ProcessDecision(qtyHalves, shortable, remaining_limit, price) ==
    /\ dPc = "ticker"
    /\ dClient \/ (qtyHalves = 0 /\ shortable)
    /\ LET ticker == DispatchTickers[dTicker]
           raw_decision == dDecisions[dTicker]
           current_position == get_current_position(qtyHalves)
           check == check_decision(raw_decision, current_position, shortable,
                                   remaining_limit, price)
           error_order == OrderRecord(ticker, raw_decision.action, raw_decision.quantity,
                                      BrokerOrder("rejected", "Ticker not shortable", FALSE), 0)
       IN  /\ dReads' = dReads \cup client_reads(ticker, check, raw_decision, dClient)
           /\ dShortable' = IF asks_shortable(raw_decision)
                             THEN Append(dShortable, [ticker |-> ticker,
                                                      shortable |-> shortable])
                             ELSE dShortable
           /\ CASE check.outcome = "continue" ->
                  /\ dLog' = Append(dLog, [ticker |-> ticker, cause |-> check.cause])
                  /\ NextTicker
                  /\ UNCHANGED <<dOrders, dStore, dEmitted>>
             [] check.outcome = "rejected" ->
                  /\ dLog' = Append(dLog, [ticker |-> ticker, cause |-> check.cause])
                  /\ dOrders' = Append(dOrders, error_order)
                  /\ dStore' = Append(dStore, [ticker |-> ticker, status |-> "rejected"])
                  /\ NextTicker
                  /\ UNCHANGED dEmitted
             [] check.outcome = "reconcile" ->
                  /\ dReconciled' = check.orders
                  /\ dEmitted' = dEmitted \o SubOrders(ticker, check.orders)
                  /\ dIdx' = 0
                  /\ dPc' = "submitting"
                  /\ UNCHANGED <<dTicker, dOrders, dStore, dLog>>
    /\ UNCHANGED <<dDecisions, dDryRun, dClient, dCalls, dSlept>>
    /\ UNCHANGED dOthers

\* One iteration of the sub-order loop: the order is handed to the broker,
\* its record appended to orders and handed to the order store.
SubmitSubOrder(outcome) ==
    /\ dPc = "submitting"
    /\ LET ticker == DispatchTickers[dTicker]
           order_spec == dReconciled[dIdx + 1]
           order_decision == Decision(order_spec.action, order_spec.quantity,
                                      dDecisions[dTicker].confidence, TRUE)
           reached == reaches_client(order_decision, dDryRun, dClient)
           broker_order == submit_order(order_decision, dDryRun, dClient, outcome)
           order_record == OrderRecord(ticker, order_spec.action, order_spec.quantity,
                                       broker_order, dIdx + 1)
       IN  /\ reached \/ outcome = "accepted"
           /\ dCalls' = Append(dCalls,
                  [ticker |-> ticker, action |-> order_spec.action,
                   quantity |-> order_spec.quantity,
                   client |-> reached,
                   failure |-> IF reached /\ outcome # "accepted" THEN outcome ELSE None])
           /\ dSlept' = IF settles(dIdx, Len(dReconciled), broker_order.status)
                         THEN Append(dSlept, [ticker |-> ticker, calls |-> Len(dCalls) + 1,
                                              seconds |-> delay_seconds])
                         ELSE dSlept
           /\ dOrders' = Append(dOrders, order_record)
           /\ dStore' = Append(dStore, [ticker |-> ticker, status |-> broker_order.status])
           /\ IF more_sub_orders(dIdx + 1, Len(dReconciled), broker_order.status)
              THEN /\ dIdx' = dIdx + 1
                   /\ UNCHANGED <<dPc, dTicker, dReconciled>>
              ELSE NextTicker
    /\ UNCHANGED <<dDecisions, dDryRun, dClient, dReads, dLog, dEmitted, dShortable>>
    /\ UNCHANGED dOthers

DNext ==
    \/ \E qtyHalves \in DispatchQtys, shortable \in BOOLEAN,
          remaining_limit \in RiskLimits, price \in Prices :
           ProcessDecision(qtyHalves, shortable, remaining_limit, price)
    \/ \E outcome \in SubmitOutcomes : SubmitSubOrder(outcome)

(***************************************************************************)
(* validation_monitor: the direction points of a candidate                 *)
(***************************************************************************)

\* The prices of a quote and of a bar's close, between MinQuote and MaxQuote.
MinQuote == 7
MaxQuote == 13
Quotes == MinQuote..MaxQuote

\* FAST_MONITOR_PERCENT_THRESHOLD as configured for the check, in percent.
fast_percent_threshold == 10

\* round(instant_change, 6) as fast_monitor computes it, in millionths:
\* abs(latest_price - previous_price) / previous_price.
instant_change(latest_price, previous_price) ==
    (Abs(latest_price - previous_price) * 1000000) \div previous_price

\* The fields of candidate_payload the validation reads.
fast_candidate_payload(latest_price, previous_price) ==
    [trigger_price |-> latest_price,
     instant_change |-> instant_change(latest_price, previous_price)]

\* "1. Price moved in expected direction? (+30 points)".
direction_points(signal_doc, current_price) ==
    LET trigger_price == signal_doc.trigger_price
        initial_direction == IF signal_doc.instant_change > 0
                             THEN "bullish" ELSE "bearish"
        \* the sign of (current_price - trigger_price) / trigger_price
        price_change == current_price - trigger_price
    IN  IF trigger_price > 0
           /\ \/ initial_direction = "bullish" /\ price_change > 0
              \/ initial_direction = "bearish" /\ price_change < 0
        THEN 30 ELSE 0

NoCheck == [pc |-> "detect", move |-> "none", signal_doc |-> <<>>,
            current_price |-> 0, points |-> 0]

VStart == vCheck = NoCheck

vOthers == <<rVars, qVars, mVars, calVars, bVars, sVars, dVars, tVars, lVars>>

\* fast_monitor on one ticker whose quote moved by the threshold or more
\* against the close of the last bar: the candidate it stores.  move is the
\* direction of that move.
FastDetect(latest_price, previous_price) ==
    /\ vCheck.pc = "detect"
    /\ previous_price > 0
    /\ instant_change(latest_price, previous_price) >= fast_percent_threshold * 10000
    /\ vCheck' = [NoCheck EXCEPT
                     !.pc = "validate",
                     !.move = IF latest_price > previous_price THEN "up" ELSE "down",
                     !.signal_doc = fast_candidate_payload(latest_price, previous_price)]
    /\ UNCHANGED vOthers

\* validation_monitor on the candidate, once confirmed, with bars[-1].close.
ValidateDirection(current_price) ==
    /\ vCheck.pc = "validate"
    /\ vCheck' = [vCheck EXCEPT
                     !.pc = "done",
                     !.current_price = current_price,
                     !.points = direction_points(vCheck.signal_doc, current_price)]
    /\ UNCHANGED vOthers

VNext ==
    \/ \E latest_price, previous_price \in Quotes : FastDetect(latest_price, previous_price)
    \/ \E current_price \in Quotes : ValidateDirection(current_price)

(***************************************************************************)
(* QueueWorker._process_message: the trade mode of a run                   *)
(***************************************************************************)

\* Largest number of ticker decisions run_hedge_fund returns.
MaxDecisions == 2

\* overrides.get("trade_mode"): the key is absent, or one of these strings.
Absent == "absent"
TradeModeOverrides == {Absent, "paper", "analysis", "PAPER"}

\* str.lower() on these strings.
lower(text) == IF text = "PAPER" THEN "paper" ELSE text

\* run_kwargs["trade_mode"]: overrides.get("trade_mode", "paper" if
\* use_alpaca else "analysis").
run_trade_mode(override, use_alpaca) ==
    IF override # Absent THEN override
    ELSE IF use_alpaca THEN "paper" ELSE "analysis"

\* The local trade_mode of _process_message after the run:
\* overrides.get("trade_mode", "analysis").
worker_trade_mode(override) ==
    IF override # Absent THEN override ELSE "analysis"

\* "if trade_mode and trade_mode.lower() == 'paper'" and "if not decisions"
\* of run_hedge_fund: it calls dispatch_paper_orders.
run_dispatches(trade_mode, decisions) ==
    lower(trade_mode) = "paper" /\ decisions > 0

\* A call of dispatch_paper_orders: who called it, with which decisions
\* (ticker decisions are numbered 1..decisions) and which dry_run.
Dispatch(by, decisions, dry_run) ==
    [by |-> by, decisions |-> 1..decisions, dry_run |-> dry_run]

NoRun == [pc |-> "idle", use_alpaca |-> FALSE, override |-> Absent,
          dry_run |-> FALSE, decisions |-> 0, passed |-> Absent,
          dispatched |-> <<>>, recorded |-> Absent]

TStart == tRun = NoRun

tOthers == <<rVars, qVars, mVars, calVars, bVars, sVars, dVars, vVars, lVars>>

\* _process_message up to the call of run_hedge_fund: USE_ALPACA_PORTFOLIO,
\* the overrides of the message, run_kwargs.
BuildRunKwargs(use_alpaca, override, dry_run) ==
    /\ tRun.pc = "idle"
    /\ tRun' = [NoRun EXCEPT !.pc = "running",
                             !.use_alpaca = use_alpaca,
                             !.override = override,
                             !.dry_run = dry_run,
                             !.passed = run_trade_mode(override, use_alpaca)]
    /\ UNCHANGED tOthers

\* run_hedge_fund(**run_kwargs): the agents return decisions for so many
\* tickers, and the trade execution section dispatches them in paper mode.
\* An exception of dispatch_paper_orders is caught there.
RunHedgeFund(decisions) ==
    /\ tRun.pc = "running"
    /\ tRun' = [tRun EXCEPT
                   !.pc = "ran",
                   !.decisions = decisions,
                   !.dispatched =
                       IF run_dispatches(tRun.passed, decisions)
                       THEN Append(@, Dispatch("run_hedge_fund", decisions, tRun.dry_run))
                       ELSE @]
    /\ UNCHANGED tOthers

\* _process_message after the run: result_record, the check of the trade
\* mode in the overrides, dispatch_paper_orders and result_record["trade_mode"].
RecordResult ==
    /\ tRun.pc = "ran"
    /\ LET trade_mode == worker_trade_mode(tRun.override)
       IN  tRun' = [tRun EXCEPT
                      !.pc = "done",
                      !.dispatched =
                          IF trade_mode = "paper"
                          THEN Append(@, Dispatch("_process_message", tRun.decisions,
                                                  tRun.dry_run))
                          ELSE @,
                      !.recorded = IF trade_mode = "paper" THEN "paper" ELSE "analysis"]
    /\ UNCHANGED tOthers

TNext ==
    \/ \E use_alpaca, dry_run \in BOOLEAN, override \in TradeModeOverrides :
           BuildRunKwargs(use_alpaca, override, dry_run)
    \/ \E decisions \in 0..MaxDecisions : RunHedgeFund(decisions)
    \/ RecordResult

(***************************************************************************)
(* The loop of a monitor pass over its tickers: what the body calls, and   *)
(* where an exception of a call goes                                       *)
(***************************************************************************)

\* The watchlist of a pass: the default one, or a shorter one parsed from
\* MARKET_MONITOR_WATCHLIST.  The validation pass loops over the confirmed
\* signals, here one of each ticker.
default_watchlist == <<"AAPL", "MSFT", "NVDA">>
Watchlists == {SubSeq(default_watchlist, 1, n) : n \in 1..Len(default_watchlist)}

\* The calls of a loop body that fetch prices, quotes or bars.
Fetches(pass) ==
    CASE pass = "market_monitor" -> {"_fetch_price_history"}
      [] pass = "fast_monitor" -> {"get_best_quote", "get_intraday_bars"}
      [] pass = "validation_monitor" -> {"get_intraday_bars"}

\* The other calls of a loop body that can raise: the candidate query and
\* the engine of the main pass, the name calculate_rsi of the validation
\* pass.
OtherCalls(pass) ==
    CASE pass = "market_monitor" -> {"query_items", "enhanced_signal_detection"}
      [] pass = "fast_monitor" -> {}
      [] pass = "validation_monitor" -> {"calculate_rsi"}

\* The calls of the body of market_monitor outside every try block: their
\* exception leaves the invocation.
Uncaught == {"enhanced_signal_detection"}

\* The query of the main pass has a try block of its own, whose except
\* clause logs and goes on with the body.
GoesOn == {"query_items"}

\* A loop that ends at the first exception.
abort_on_exception(idx, n) == n + 1

\* "except Exception: ...; continue": the index of the ticker the loop goes
\* on with after an exception in the body of ticker idx.
after_exception(idx, n) == idx + 1

\* The index the loop goes on with after the body of ticker idx, in which
\* the call raised raised its exception ("none": no call did).
after_body(idx, n, raised) ==
    IF raised \in Uncaught THEN n + 1
    ELSE IF raised = "none" \/ raised \in GoesOn THEN idx + 1
    ELSE after_exception(idx, n)

NoLoop == [pass |-> "none", watchlist |-> <<>>, idx |-> 0, handled |-> <<>>]

LStart == loopRun = NoLoop

lOthers == <<rVars, qVars, mVars, calVars, bVars, sVars, dVars, vVars, tVars>>

\* An invocation reaches its loop.
LoopStart(pass, list) ==
    /\ loopRun.pass = "none"
    /\ loopRun' = [pass |-> pass, watchlist |-> list, idx |-> 1, handled |-> <<>>]
    /\ UNCHANGED lOthers

\* The body of one ticker.
LoopBody(raised) ==
    /\ loopRun.pass # "none"
    /\ loopRun.idx <= Len(loopRun.watchlist)
    /\ raised \in Fetches(loopRun.pass) \cup OtherCalls(loopRun.pass) \cup {"none"}
    /\ loopRun' = [loopRun EXCEPT
                      !.handled = Append(@, [ticker |-> loopRun.watchlist[loopRun.idx],
                                             raised |-> raised]),
                      !.idx = after_body(@, Len(loopRun.watchlist), raised)]
    /\ UNCHANGED lOthers

\* The invocation returns, or its exception leaves it.
LoopReturn ==
    /\ loopRun.pass # "none"
    /\ loopRun.idx > Len(loopRun.watchlist)
    /\ loopRun' = NoLoop
    /\ UNCHANGED lOthers

LNext ==
    \/ \E pass \in Passes, list \in Watchlists : LoopStart(pass, list)
    \/ \E raised \in {"none", "_fetch_price_history", "get_best_quote",
                       "get_intraday_bars", "query_items",
                       "enhanced_signal_detection", "calculate_rsi"} :
           LoopBody(raised)
    \/ LoopReturn

\* The variables of the functions checked on their own, before any call.
FStart == CalStart /\ BStart /\ SStart /\ DStart /\ VStart /\ TStart /\ LStart

(***************************************************************************)
(* Specifications                                                          *)
(***************************************************************************)

InitReconcile == RInit /\ QStart /\ MStart /\ FStart
SpecReconcile == InitReconcile /\ [][RNext]_vars

InitQueue == QInit /\ RStart /\ MStart /\ FStart
SpecQueue == InitQueue /\ [][QNext]_vars

InitMonitor == MInit(Sessions) /\ RStart /\ QStart /\ FStart
SpecMonitor == InitMonitor /\ [][MNext]_vars

\* time.sleep returns and func() returns or raises: no step of the loop waits
\* for ever.
InitBackoff == RStart /\ QStart /\ MStart /\ CalStart /\ BInit /\ SStart /\ DStart
               /\ VStart /\ TStart /\ LStart
SpecBackoff == InitBackoff /\ [][BNext]_vars /\ WF_vars(BNext)

InitSignal == RStart /\ QStart /\ MStart /\ FStart
SpecSignal == InitSignal /\ [][SNext]_vars

InitCalendar == RStart /\ QStart /\ MStart /\ FStart
SpecCalendar == InitCalendar /\ [][CalNext]_vars

InitDispatch == RStart /\ QStart /\ MStart /\ CalStart /\ BStart /\ SStart /\ DInit
                /\ VStart /\ TStart /\ LStart
SpecDispatch == InitDispatch /\ [][DNext]_vars

InitGate == MInit(GateSessions) /\ RStart /\ QStart /\ FStart
SpecGate == InitGate /\ [][MNext]_vars

InitPasses == PInit /\ otherMain = IdleMain /\ RStart /\ QStart /\ FStart
SpecPasses == InitPasses /\ [][PNext]_vars

InitConfig == MInit({<<RegularDay, time(11, 0), 0>>}) /\ RStart /\ QStart /\ FStart
SpecConfig == InitConfig /\ [][ConfigNext]_vars

InitWindow == MInit(FastWindow) /\ RStart /\ QStart /\ FStart
SpecWindow == InitWindow /\ [][WindowNext]_vars

InitInterleaved == PInit /\ otherMain \in DetectedInvocations
                   /\ RStart /\ QStart /\ FStart
SpecInterleaved == InitInterleaved /\ [][InterleavedNext]_vars

InitLoop == RStart /\ QStart /\ MStart /\ FStart
SpecLoop == InitLoop /\ [][LNext]_vars

InitDirection == RStart /\ QStart /\ MStart /\ FStart
SpecDirection == InitDirection /\ [][VNext]_vars

InitTradeMode == RStart /\ QStart /\ MStart /\ FStart
SpecTradeMode == InitTradeMode /\ [][TNext]_vars

(***************************************************************************)
(* Claims about position reconciliation                                    *)
(***************************************************************************)

Reconciled == rPc # "idle"

\* C6: flatten-then-enter. For every desired quantity q >= 1, 'buy' while
\* short gives [cover(all short), buy(q)] in that order and 'short' while long
\* gives [sell(all long), short(q)] in that order; 'buy' while long or flat
\* gives exactly [buy(q)] and 'short' while short or flat exactly [short(q)].
C6_FlattenThenEnter ==
    Reconciled =>
        /\ (rAction = "buy" /\ rPosition.side = "short") =>
               rOrders = <<Order("cover", rPosition.short), Order("buy", rQty)>>
        /\ (rAction = "buy" /\ rPosition.side \in {"long", "flat"}) =>
               rOrders = <<Order("buy", rQty)>>
        /\ (rAction = "short" /\ rPosition.side = "long") =>
               rOrders = <<Order("sell", rPosition.long), Order("short", rQty)>>
        /\ (rAction = "short" /\ rPosition.side \in {"short", "flat"}) =>
               rOrders = <<Order("short", rQty)>>

\* C6 witness: long 3, 'short' 2 requested, reconciled to [sell 3, short 2]
\* and both sub-orders submitted.
C6_Witness ==
    /\ rPc = "done"
    /\ rAction = "short"
    /\ rQty = 2
    /\ rPosition = [long |-> 3, short |-> 0, side |-> "long"]
    /\ rOrders = <<Order("sell", 3), Order("short", 2)>>
    /\ rIdx = 2

\* C7: reduction cap. 'sell' while long gives exactly one sell of
\* min(desired, long); 'cover' while short exactly one cover of
\* min(desired, short); 'sell' while not long and 'cover' while not short give
\* no orders.
C7_ReductionCap ==
    Reconciled =>
        /\ (rAction = "sell" /\ rPosition.side = "long") =>
               rOrders = <<Order("sell", Min(rQty, rPosition.long))>>
        /\ (rAction = "cover" /\ rPosition.side = "short") =>
               rOrders = <<Order("cover", Min(rQty, rPosition.short))>>
        /\ (rAction = "sell" /\ rPosition.side # "long") => rOrders = <<>>
        /\ (rAction = "cover" /\ rPosition.side # "short") => rOrders = <<>>

\* C7 witness: long 2, 'sell' 3 requested, capped to [sell 2] and submitted.
C7_Witness ==
    /\ rPc = "done"
    /\ rAction = "sell"
    /\ rQty = 3
    /\ rPosition = [long |-> 2, short |-> 0, side |-> "long"]
    /\ rOrders = <<Order("sell", 2)>>
    /\ rIdx = 1

\* A position as the claim takes it: both counts non-negative, not both
\* positive, and the side saying which one is positive.
ConsistentPosition(pos) ==
    /\ pos.long >= 0
    /\ pos.short >= 0
    /\ ~(pos.long > 0 /\ pos.short > 0)
    /\ (pos.side = "long") = (pos.long > 0)
    /\ (pos.side = "short") = (pos.short > 0)
    /\ (pos.side = "flat") = (pos.long = 0 /\ pos.short = 0)

\* C8: no conflicting exposure. From a consistent position, for every action
\* and desired quantity >= 1, after every fully filled sub-order the held
\* long and short shares are >= 0 and never both positive, and every emitted
\* quantity is >= 1.
C8_NoConflictingExposure ==
    (Reconciled /\ ConsistentPosition(rPosition) /\ rAllFilled) =>
        /\ rLong >= 0
        /\ rShort >= 0
        /\ ~(rLong > 0 /\ rShort > 0)
        /\ \A i \in 1..Len(rOrders) : rOrders[i].quantity >= 1

\* C8 witness: short 2, 'buy' 1: both sub-orders filled, now long 1, short 0.
C8_Witness ==
    /\ rPc = "done"
    /\ rAllFilled
    /\ rPosition = [long |-> 0, short |-> 2, side |-> "short"]
    /\ rAction = "buy"
    /\ rIdx = 2
    /\ rLong = 1
    /\ rShort = 0


(***************************************************************************)
(* Claims about the queue worker                                           *)
(***************************************************************************)

RunEndedWith(w) == wPc[w] = "ended" /\ wMsg[w] # NoMsg

\* C1: at most once. Over any sequence of run() invocations, by one or
\* several workers and with any outcome of the delete call, each queue message
\* is handed to parsing/processing at most once.
C1_AtMostOnce == \A m \in Msgs : Handled(m) <= 1

\* What a run leaves behind for a message it could not process.
DeadLettered(w) == DeadLetterPayload(wMsg[w], wReason[w]) \in dlq
DropLogged(w) == LogEntry(wMsg[w], "dropped: no dead-letter queue") \in qLog
SendFailureLogged(w) == LogEntry(wMsg[w], "send_dead_letter failed") \in qLog

\* C2: no received message is silently lost. Every run that received a
\* message ends with the message processed successfully, or with a
\* dead-letter record carrying its id and the reason, or, only when no
\* dead-letter queue is configured, with a logged drop.
C2_NoSilentLoss ==
    \A w \in Workers : RunEndedWith(w) =>
        \/ wResult[w] = "True" /\ wReason[w] = "none" /\ wMsg[w] \in processedOk
        \/ wReason[w] # "none" /\ DeadLettered(w)
        \/ wReason[w] # "none" /\ ~dlqConfigured /\ DropLogged(w)

\* The values of a key that hold no ticker text.
NoText == {"absent", "empty_str", "blank_str"}

\* The payloads C3 is about: invalid JSON, or a JSON object in which none of
\* tickers, ticker, symbol, asset yields a ticker.
YieldsNoTicker(c) ==
    \/ c.kind = "invalid_json"
    \/ /\ c.kind = "object"
       /\ c.tickers \in NoText \cup {"empty_list", "blank_list", "zero", "number"}
       /\ {c.ticker, c.symbol, c.asset} \subseteq NoText

\* C3: poison quarantine. A run that received invalid JSON, or a JSON object
\* without any ticker, returns True, has dead-lettered the message (a record
\* in the dead-letter queue, or the logged drop or send failure that stands
\* for it) and run_hedge_fund was not invoked for the message.
C3_PoisonQuarantine ==
    \A w \in Workers : (RunEndedWith(w) /\ YieldsNoTicker(qContent[wMsg[w]])) =>
        /\ wResult[w] = "True"
        /\ DeadLettered(w) \/ DropLogged(w) \/ SendFailureLogged(w)
        /\ wMsg[w] \notin hedgeCalled

\* C4: run() never propagates an exception caused by a single message: every
\* run that received a message returns True, whatever delete, parse,
\* processing and the dead-letter send do.
C4_NeverPropagates ==
    \A w \in Workers : RunEndedWith(w) => wResult[w] = "True"

(***************************************************************************)
(* Claims about the monitor passes                                         *)
(***************************************************************************)

\* The analysis requests, by their position in the queue.
Requests == 1..Len(sent)

\* C5: cooldown idempotence. Of two main-pass runs at times t1 < t2 less than
\* the cooldown apart that both detect a qualifying signal for a ticker, only
\* one enqueues an analysis request for it: the queue never holds two
\* requests for one ticker triggered at different times less than the
\* cooldown apart.
C5_CooldownIdempotence ==
    \A i, j \in Requests :
        (/\ sent[i].tickers = sent[j].tickers
         /\ sent[i].triggered_at < sent[j].triggered_at)
        => sent[j].triggered_at - sent[i].triggered_at >= cooldown_minutes

\* The status changes the lifecycle of a FastCandidate allows.
Lifecycle ==
    { <<"pending_confirmation", "confirmed">>,
      <<"pending_confirmation", "rejected_no_confirmation">>,
      <<"pending_confirmation", "rejected_low_confidence">>,
      <<"confirmed", "validated">>,
      <<"confirmed", "invalidated">> }

\* C9: FastCandidate lifecycle. In every interleaving of the passes the
\* stored status of a candidate changes only along pending_confirmation ->
\* confirmed | rejected_no_confirmation | rejected_low_confidence and
\* confirmed -> validated | invalidated, so that a rejected, validated or
\* invalidated candidate never changes status again.
C9_CandidateLifecycle ==
    [][\A c \in cand : \A d \in cand' :
          (c.id = d.id /\ c.status # d.status)
          => <<c.status, d.status>> \in Lifecycle]_vars

\* The market is closed at the time of the clock.
MarketClosed == ~is_market_open(today, now)

\* C10: market-hours gate. Whenever is_market_open(now) is false, an
\* invocation of fast_monitor, market_monitor or validation_monitor returns
\* at the gate, before any price fetch and any query of the store: no pass
\* is left running, the invoked pass is left as returned at the gate, and the
\* cooldown records, the candidate documents and the queue are unchanged.
C10_MarketHoursGate ==
    [][MarketClosed =>
          /\ UNCHANGED <<cooldownRec, cand, sent>>
          /\ mainPass' # mainPass => mainPass' = [IdleMain EXCEPT !.pc = "skipped"]
          /\ fastPass' # fastPass => fastPass' = [pc |-> "skipped"]
          /\ validationPass' # validationPass
                 => validationPass' = [IdleValidation EXCEPT !.pc = "skipped"]]_vars

\* The three passes have been invoked after the early close and returned at
\* the gate, with a candidate document in the store.
C10_Witness ==
    /\ MarketClosed
    /\ today = EarlyCloseDay
    /\ mainPass.pc = "skipped"
    /\ fastPass.pc = "skipped"
    /\ validationPass.pc = "skipped"
    /\ cand # {}

(***************************************************************************)
(* Claims about the market calendar                                        *)
(***************************************************************************)

\* The New York date and minute of a UTC timestamp, counted in minutes from
\* the start of the first date of its week.
EasternMinutes(ts) == ts.day * MinutesPerDay + ts.minute - utcoffset(ts.week)
EasternDate(ts) == dates(ts.week)[EasternMinutes(ts) \div MinutesPerDay]
EasternTime(ts) == EasternMinutes(ts) % MinutesPerDay

\* C11: is_market_open(t) is true exactly when t, in US Eastern time, falls
\* on Monday-Friday, its date is no holiday, and 9:30 <= time <= close, the
\* close being 13:00 on an early-close day and 16:00 otherwise; it is false
\* on every Saturday, Sunday and holiday at any time of day.
C11_MarketOpen ==
    calNow # NoStamp =>
        LET d == EasternDate(calNow)
            t == EasternTime(calNow)
            close == IF d.early_close THEN 13 * 60 ELSE 16 * 60
        IN  /\ calOpen <=> (/\ d.weekday \in 0..4
                            /\ ~d.holiday
                            /\ 9 * 60 + 30 <= t
                            /\ t <= close)
            /\ (d.weekday \in {5, 6} \/ d.holiday) => ~calOpen

\* The market is found open at 13:00 New York time on the day after
\* Thanksgiving, 18:00 UTC.
C11_Witness ==
    /\ calNow = [week |-> "2025-11", day |-> 6, minute |-> 18 * 60]
    /\ calOpen


(***************************************************************************)
(* Claims about the retry loop and the backoff delay                       *)
(***************************************************************************)

\* What C12 says of every state of _execute_with_backoff.
BoundedRetry ==
    /\ bCalls <= bConfig.max_attempts
    /\ (bPc = "returned" /\ bResult = "value")
           => (bLast = "ok" /\ bRetried = bCalls - 1)
    /\ (bPc \in BDone /\ bRetried = bConfig.max_attempts)
           => IF bSuppress
              THEN bPc = "returned" /\ bResult = "None" /\ bWarned
              ELSE bPc = "raised" /\ bResult = bLast /\ bLast \in RETRYABLE_EXCEPTIONS

\* C12: bounded retry. _execute_with_backoff calls the operation at most
\* max_attempts times and always terminates; the first successful call ends
\* it with that result; when every attempt raised a retryable error it
\* re-raises the error without suppress_errors (receive, dead-letter send)
\* and returns None with a warning with suppress_errors (delete).
C12_BoundedRetry ==
    /\ []BoundedRetry
    /\ [][(bPc \in BDone) => (bCalls' = bCalls \/ bPc' = "calling")]_vars
    /\ (bPc = "calling") ~> (bPc \in BDone)

\* A delete gave up after three retryable errors with max_attempts = 3.
C12_Witness ==
    /\ bConfig.max_attempts = 3
    /\ bPc = "returned"
    /\ bSuppress
    /\ bRetried = 3
    /\ bResult = "None"
    /\ bWarned

\* What C13 says of the delay _compute_backoff returned last.
BackoffBound ==
    bDelay.attempt >= 1 =>
        /\ bDelay.total = Min(bConfig.base_backoff_seconds * 2 ^ (bDelay.attempt - 1),
                              bConfig.max_backoff_seconds) + bDelay.jitter
        /\ 0 <= bDelay.jitter
        /\ bDelay.jitter <= bConfig.base_backoff_seconds
        /\ bDelay.total <= bConfig.max_backoff_seconds + bConfig.base_backoff_seconds
        /\ (/\ bDelay.attempt = 5
            /\ bConfig.base_backoff_seconds = 2
            /\ bConfig.max_backoff_seconds = 30) => bDelay.total <= 32

\* C13: backoff bound. For every attempt n >= 1 the delay is
\* min(base * 2^(n-1), max_backoff) + jitter with 0 <= jitter <= base, so at
\* most max_backoff + base; from one call to a call with a larger attempt
\* number the part without jitter does not decrease, and it stays the same
\* once it is max_backoff.
C13_BackoffBound ==
    /\ []BackoffBound
    /\ [][(bDelay.attempt >= 1 /\ bDelay'.attempt >= bDelay.attempt)
             => /\ bDelay'.delay >= bDelay.delay
                /\ bDelay.delay = bConfig.max_backoff_seconds
                       => bDelay'.delay = bDelay.delay]_vars

\* The delay for attempt 5 with base 2 and max_backoff 30: capped at 30, with
\* the largest jitter.
C13_Witness ==
    /\ bConfig.base_backoff_seconds = 2
    /\ bConfig.max_backoff_seconds = 30
    /\ bDelay = [attempt |-> 5, delay |-> 30, jitter |-> 2, total |-> 32]

(***************************************************************************)
(* Claims about concurrent workers and payload violations                  *)
(***************************************************************************)

\* C14: in every interleaving of workers calling run() against one queue, no
\* message is being processed by two workers at the same time, also when
\* processing outlasts the visibility timeout or the delete call failed.
C14_NoConcurrentProcessing ==
    \A w1, w2 \in Workers :
        (w1 # w2 /\ wPc[w1] = "processing" /\ wPc[w2] = "processing")
        => wMsg[w1] # wMsg[w2]

\* The payloads C15 is about: content that is not text or not a JSON object,
\* a tickers value that is a number, a boolean or an object, a ticker list
\* that is empty after stripping, overrides that are present and no object.
PayloadViolation(c) ==
    \/ c.kind # "object"
    \/ c.tickers \in {"number", "obj"}
    \/ TickersToIterate(c) = "blank_list"
    \/ c.overrides \notin {"absent", "empty_obj", "obj"}

\* C15: every payload violation is a poison classification. A run that has
\* parsed such a message holds the reason of a PoisonMessageError for the
\* dead-letter queue: it did not end with another exception, it is not
\* processing the message, and run_hedge_fund is never invoked for it.
C15_ViolationIsPoison ==
    \A w \in Workers :
        (/\ wMsg[w] # NoMsg
         /\ wPc[w] \notin {"idle", "received"}
         /\ PayloadViolation(qContent[wMsg[w]]))
        => /\ wPc[w] # "processing"
           /\ wReason[w] # "none"
           /\ wMsg[w] \notin hedgeCalled

(***************************************************************************)
(* Claims about signal detection                                           *)
(***************************************************************************)

PriorityRule(count, confidence) ==
    IF count >= 4 /\ confidence > 80 THEN "critical"
    ELSE IF count >= 3 /\ confidence > 70 THEN "high"
    ELSE IF count >= 2 /\ confidence > 60 THEN "medium"
    ELSE "low"

\* C17: the priority of a returned SignalResult is a function of its reasons
\* count and its confidence: critical iff >= 4 reasons and confidence > 0.8,
\* else high iff >= 3 and > 0.7, else medium iff >= 2 and > 0.6, else low.
C17_PriorityRule ==
    sInput # NoInput =>
        sResult.priority = PriorityRule(Len(sResult.reasons), sResult.confidence)

\* The reasons of a result without price_breakout.
OtherReasons(result) == SelectSeq(result.reasons, LAMBDA r : r # "price_breakout")

\* The call before had a percent_threshold at or below the realized change,
\* this call has one above it.
ThresholdRaisedAbove ==
    /\ sPrev # NoCall
    /\ sPrev.input.percent_change # NoChange
    /\ sPrev.input.percent_threshold <= sPrev.input.percent_change
    /\ sPrev.input.percent_change < sInput.percent_threshold

\* C18: confidence monotonicity. On the same bars, raising percent_threshold
\* from at or below the realized absolute percent change to above it removes
\* price_breakout, leaves the other reasons as they were, and does not
\* increase the confidence.
C18_ThresholdMonotone ==
    ThresholdRaisedAbove =>
        /\ OtherReasons(sResult) = sResult.reasons
        /\ sResult.reasons = OtherReasons(sPrev.result)
        /\ sResult.confidence <= sPrev.result.confidence

\* The threshold went from 2% to 3% with a change of 2.5%: price_breakout is
\* gone, volume_spike and bollinger_extreme stay, the confidence falls from
\* 0.83 to 0.75.
C18_Witness ==
    /\ ThresholdRaisedAbove
    /\ sPrev.result.reasons = <<"price_breakout", "volume_spike", "bollinger_extreme">>
    /\ sPrev.result.confidence = 83
    /\ sResult.reasons = <<"volume_spike", "bollinger_extreme">>
    /\ sResult.confidence = 75

(***************************************************************************)
(* Claims about dispatch_paper_orders                                      *)
(***************************************************************************)

\* A skipped*-status.
SkippedStatus(status) == status \in {"skipped", "skipped_confidence"}

\* The causes the loop leaves a decision for that are business rules.
BusinessRuleSkips ==
    {"non-positive quantity", "confidence below threshold", "not shortable",
     "risk limit allows zero shares"}

UnsupportedAction(raw_decision) == raw_decision.action \notin (Actions \cup {"hold"})

\* The decision of the k-th ticker was not executed because of a business rule.
NotExecutedByRule(k) ==
    \E i \in 1..Len(dLog) :
        /\ dLog[i].ticker = DispatchTickers[k]
        /\ dLog[i].cause \in BusinessRuleSkips \/ UnsupportedAction(dDecisions[k])

\* C19: when dispatch_paper_orders has returned, every ticker whose decision
\* was not executed because of a non-positive quantity, a confidence below
\* the threshold, an unsupported action, a non-shortable ticker or a risk
\* limit that allows zero shares has a record in the returned orders with a
\* skipped*-status and an error string.
C19_SkipsRecorded ==
    dPc = "returned" =>
        \A k \in 1..Len(dDecisions) :
            NotExecutedByRule(k) =>
                \E j \in 1..Len(dOrders) :
                    /\ dOrders[j].ticker = DispatchTickers[k]
                    /\ SkippedStatus(dOrders[j].status)
                    /\ dOrders[j].error # None

\* The order records of the sub-order loop, in the order they were appended.
OfSubOrder(record) == record.step > 0
SubOrderRecords == SelectSeq(dOrders, OfSubOrder)

\* The k-th ticker was left by the checks or had its sub-orders emitted.
Visited(k) ==
    \/ \E i \in 1..Len(dLog) : dLog[i].ticker = DispatchTickers[k]
    \/ \E i \in 1..Len(dEmitted) : dEmitted[i].ticker = DispatchTickers[k]

\* C20: the sub-orders reconciliation emitted are handed to the broker in
\* the order emitted, each has exactly one order record, a submission that
\* failed has a record with status "error" and the failure message, and
\* when the function has returned every emitted sub-order of every ticker
\* was submitted, whichever of them failed.
C20_FailedSubOrderDoesNotAbort ==
    /\ Len(dCalls) <= Len(dEmitted)
    /\ Len(SubOrderRecords) = Len(dCalls)
    /\ \A k \in 1..Len(dCalls) :
        /\ dCalls[k].ticker = dEmitted[k].ticker
        /\ dCalls[k].action = dEmitted[k].action
        /\ dCalls[k].quantity = dEmitted[k].quantity
        /\ SubOrderRecords[k].ticker = dEmitted[k].ticker
        /\ SubOrderRecords[k].action = dEmitted[k].action
        /\ SubOrderRecords[k].quantity = dEmitted[k].quantity
        /\ dCalls[k].failure # None =>
               /\ SubOrderRecords[k].status = "error"
               /\ SubOrderRecords[k].error = dCalls[k].failure
    /\ dPc = "returned" =>
        /\ Len(dCalls) = Len(dEmitted)
        /\ \A k \in 1..Len(dDecisions) : Visited(k)

\* The function has returned after the first of two sub-orders of a ticker
\* failed, the second was submitted, and so was an order of a later ticker.
C20_Witness ==
    /\ dPc = "returned"
    /\ \E k \in 1..Len(dCalls) :
        /\ dCalls[k].failure # None
        /\ k + 2 <= Len(dCalls)
        /\ dCalls[k + 1].ticker = dCalls[k].ticker
        /\ dCalls[k + 2].ticker # dCalls[k].ticker
        /\ SubOrderRecords[k + 2].status = "accepted"

\* C21: in a dry run no call of broker.submit_order gets as far as the
\* client's submit_order, every sub-order that passes the broker's skip
\* checks has a record with status "accepted_dry_run" and dry_run TRUE, and
\* with a client the position of every ticker that has sub-orders was read
\* from it, and so was the asset of a ticker to short.
C21_DryRunSubmitsNothing ==
    dDryRun =>
        /\ \A k \in 1..Len(dCalls) : ~dCalls[k].client
        /\ \A j \in 1..Len(dOrders) :
            (dOrders[j].step > 0 /\ ~SkippedStatus(dOrders[j].status)) =>
                /\ dOrders[j].status = "accepted_dry_run"
                /\ dOrders[j].dry_run = TRUE
        /\ dClient =>
            \A k \in 1..Len(dEmitted) :
                /\ Read(dEmitted[k].ticker, "get_open_position") \in dReads
                /\ \A t \in 1..Len(dDecisions) :
                       (DispatchTickers[t] = dEmitted[k].ticker
                        /\ dDecisions[t].action = "short") =>
                           Read(dEmitted[k].ticker, "get_asset") \in dReads

\* A dry run with a client has returned: the position read was long, the
\* decision to short was reconciled into two sub-orders, both accepted as
\* dry-run orders.
C21_Witness ==
    /\ dDryRun
    /\ dClient
    /\ dPc = "returned"
    /\ \E j \in 1..Len(dOrders) :
        /\ dOrders[j].step = 2
        /\ dOrders[j].action = "short"
        /\ dOrders[j].status = "accepted_dry_run"
        /\ Read(dOrders[j].ticker, "get_asset") \in dReads

(***************************************************************************)
(* Claims about non-retryable errors of a queue operation                  *)
(***************************************************************************)

\* C30: once the wrapped operation has raised an exception that is not in
\* RETRYABLE_EXCEPTIONS, _execute_with_backoff has raised that exception:
\* it neither sleeps nor calls the operation again, and it does not return.
C30_NonRetryablePropagates ==
    bLast \notin (RETRYABLE_EXCEPTIONS \cup {"ok", "none"}) =>
        /\ bPc = "raised"
        /\ bResult = bLast


(***************************************************************************)
(* Claims about the passes of one minute                                   *)
(***************************************************************************)

\* C22: the CooldownRecord of a ticker is written only by the main pass, in
\* the step in which send_message succeeded for that ticker; every other step
\* of the main pass (a send that raises, a signal that did not trigger or is
\* below the minimum, a ticker in cooldown) and every step of the fast and
\* the validation pass leaves every record unchanged; there is one record
\* per ticker.
C22_CooldownRecordWrittenAfterSend ==
    [][/\ DOMAIN cooldownRec' = Tickers
       /\ cooldownRec' # cooldownRec =>
            LET ticker == watchlist[mainPass.idx]
            IN  /\ mainPass.pc = "send"
                /\ Len(sent') = Len(sent) + 1
                /\ SubSeq(sent', 1, Len(sent)) = sent
                /\ sent'[Len(sent')].tickers = <<ticker>>
                /\ cooldownRec' = [cooldownRec EXCEPT ![ticker] = mainPass.now_utc]
                /\ fastPass' = fastPass
                /\ validationPass' = validationPass]_vars

\* The main pass sent a request and wrote the record of its ticker.
C22_Witness ==
    /\ Len(sent) = 1
    /\ cooldownRec[sent[1].tickers[1]] = PassMinute

C24_EnqueuePrecondition ==
    [][Len(sent') > Len(sent) =>
         LET message == sent'[Len(sent')]
         IN  /\ mainPass.pc = "send"
             /\ message.tickers = <<watchlist[mainPass.idx]>>
             /\ Len(message.signals) > 0
             /\ message.confidence >= min_confidence
             /\ mainPass.last_trigger # Unread
             /\ \/ mainPass.last_trigger = NoTime
                \/ mainPass.now_utc - mainPass.last_trigger >= cooldown_minutes]_vars

\* A request with exactly the minimum confidence was sent while the record
\* of its ticker, older than the cooldown, was not rewritten.
C24_Witness ==
    /\ Len(sent) = 1
    /\ sent[1].confidence = min_confidence
    /\ cooldownRec[sent[1].tickers[1]] = PassMinute - 5

\* C25: every confirmed candidate the validation pass evaluates (at least 6
\* bars) is stored by that invocation with its validation fields and the
\* status the score decides: invalidated, with an exit_position message
\* enqueued, below the exit threshold, validated otherwise.  Stated for what
\* both cases share: the invocation leaves the candidate stored as validated
\* or invalidated.
C25_ValidationDecision ==
    [][validationPass' # validationPass =>
         \A c \in cand' : c.id \in validationPass'.evaluated =>
                             c.status \in {"validated", "invalidated"}]_vars

(***************************************************************************)
(* Claims about the fast pass                                              *)
(***************************************************************************)

\* C26: the fast pass stores a pending_confirmation FastCandidate for a
\* ticker with a valid quote and at least 5 bars exactly when the instant
\* change reaches the fast threshold and the ticker's last trigger is absent
\* or older than the fast cooldown, and it never sends a queue message.
\* Stated for the steps that store a candidate: the ticker's CooldownRecord
\* is absent or at least the fast cooldown old, and no message is sent.
C26_FastCandidateCreation ==
    [][\A c \in cand' :
          (\A d \in cand : d.id # c.id) =>
             /\ c.status = "pending_confirmation"
             /\ c.detected_at = now
             /\ \/ cooldownRec[c.ticker] = NoTime
                \/ now - cooldownRec[c.ticker] >= fast_cooldown_minutes
             /\ sent' = sent]_vars

\* C27: a main pass that runs with the market open within 5 minutes of the
\* detection of a pending FastCandidate and fetches the prices of its ticker
\* moves the candidate out of pending_confirmation, also when several
\* candidates of the ticker are pending at once.  Stated for the passes whose
\* writes reached the store: when the pass leaves a ticker whose candidate it
\* has stored as confirmed or rejected, no candidate of that ticker detected
\* in the 5 minutes before the pass is still pending.
C27_PendingCandidatesHandled ==
    [][/\ mainPass.fast_candidate # <<>>
       /\ mainPass.pc \in {"reject", "cooldown", "send"}
       /\ mainPass' = next_ticker(mainPass)
       /\ \E c \in cand' : /\ c.id = mainPass.fast_candidate[1].id
                           /\ c.status # "pending_confirmation"
       => \A c \in cand' :
             (/\ c.ticker = watchlist[mainPass.idx]
              /\ c.detected_at < mainPass.now_utc
              /\ c.detected_at >= mainPass.now_utc - candidate_lookback_minutes)
             => c.status # "pending_confirmation"]_vars

\* C28: with a FastCandidate the confidence the threshold decision is taken
\* on and the message carries is 0.4 x fast confidence + 0.6 x engine
\* confidence, and the priority sent follows from it: critical above 0.85,
\* high above 0.75.  The message carries two decimals, so the request sent
\* for a candidate carries the combination rounded to them, is sent only for
\* a combination of at least the minimum, and has the priority of the
\* combination.
C28_CombinedConfidence ==
    [][Len(sent') > Len(sent) /\ mainPass.fast_candidate # <<>> =>
         LET message == sent'[Len(sent')]
             fast_candidate == mainPass.fast_candidate[1]
             combined == fast_candidate.final_confidence
         IN  /\ \E engine \in PassEngineResults :
                   combined = 4 * fast_candidate.confidence + 6 * engine.confidence
             /\ message.confidence = (combined + 5) \div 10
             /\ combined >= min_confidence * 10
             /\ combined > 850 => message.priority = "critical"
             /\ (combined > 750 /\ combined <= 850) => message.priority = "high"]_vars

(***************************************************************************)
(* Claims about the direction check of the validation                      *)
(***************************************************************************)

\* C29: the validation awards the 30 direction points exactly when the price
\* moved from the trigger price in the direction of the candidate's original
\* move: above the trigger price for a candidate created from an upward
\* move, below it for a candidate created from a downward move.
C29_DirectionPoints ==
    vCheck.pc = "done" =>
        LET trigger_price == vCheck.signal_doc.trigger_price
            continued == \/ vCheck.move = "up" /\ vCheck.current_price > trigger_price
                         \/ vCheck.move = "down" /\ vCheck.current_price < trigger_price
        IN  vCheck.points = 30 <=> continued

(***************************************************************************)
(* Claims about the order of the sub-orders                                *)
(***************************************************************************)

\* C31: the sub-orders are handed to the broker in the order the
\* reconciliation emitted them, and the second sub-order of a two-step
\* result is submitted only after the first was submitted and time.sleep of
\* the settle delay (3 seconds) returned, whatever the first submission did.
C31_SettleOrdering ==
    /\ Len(dCalls) <= Len(dEmitted)
    /\ \A k \in 1..Len(dCalls) :
          /\ SubOrder(dCalls[k].ticker, dCalls[k]) = dEmitted[k]
          /\ (k > 1 /\ dCalls[k - 1].ticker = dCalls[k].ticker) =>
                \E i \in 1..Len(dSlept) :
                    /\ dSlept[i].ticker = dCalls[k].ticker
                    /\ dSlept[i].calls = k - 1
                    /\ dSlept[i].seconds = 3

\* The second sub-order of a ticker was submitted after the first had failed
\* at the broker.
C31_Witness ==
    \E k \in 2..Len(dCalls) :
        /\ dCalls[k - 1].ticker = dCalls[k].ticker
        /\ dCalls[k - 1].failure # None

(***************************************************************************)
(* Claims about a short on a ticker that is not shortable                  *)
(***************************************************************************)

\* C40: for a short decision on a ticker check_shortable reports as not
\* shortable, no order is handed to the broker for that ticker, not even the
\* sell that flattens a long position; the returned orders hold exactly one
\* record of the ticker, with status rejected and the error 'Ticker not
\* shortable'; and the loop has gone on to the next ticker.
C40_NotShortableRejected ==
    \A i \in 1..Len(dShortable) :
        ~dShortable[i].shortable =>
            LET ticker == dShortable[i].ticker
                records == {j \in 1..Len(dOrders) : dOrders[j].ticker = ticker}
            IN  /\ \A k \in 1..Len(dCalls) : dCalls[k].ticker # ticker
                /\ \A k \in 1..Len(dEmitted) : dEmitted[k].ticker # ticker
                /\ Cardinality(records) = 1
                /\ \A j \in records : /\ dOrders[j].status = "rejected"
                                      /\ dOrders[j].error = "Ticker not shortable"
                /\ \E k \in 1..Len(DispatchTickers) :
                       DispatchTickers[k] = ticker /\ dTicker > k

\* The first ticker was not shortable, and the loop went on to submit an
\* order of the second.
C40_Witness ==
    /\ Len(dShortable) > 0
    /\ ~dShortable[1].shortable
    /\ dShortable[1].ticker = DispatchTickers[1]
    /\ \E k \in 1..Len(dCalls) : dCalls[k].ticker = DispatchTickers[2]

(***************************************************************************)
(* Claims about the trade mode of a run                                    *)
(***************************************************************************)

\* The number of calls of dispatch_paper_orders that were handed the
\* decision of ticker d while the message was processed.
TimesDispatched(d) ==
    Cardinality({i \in 1..Len(tRun.dispatched) : d \in tRun.dispatched[i].decisions})

\* C33: when the worker has processed a message, the decisions of the run
\* were reconciled and submitted (dispatch_paper_orders) if and only if the
\* trade_mode the worker passed to run_hedge_fund is 'paper', and the
\* trade_mode of the result record is that trade mode.
C33_PaperModeGating ==
    tRun.pc = "done" =>
        /\ \A d \in 1..tRun.decisions :
               TimesDispatched(d) > 0 <=> tRun.passed = "paper"
        /\ tRun.recorded = tRun.passed

\* C35: when the worker has processed a message, the decision of every
\* ticker was handed to dispatch_paper_orders at most once, for every
\* overrides.trade_mode and USE_ALPACA_PORTFOLIO.
C35_SingleDispatch ==
    tRun.pc = "done" =>
        \A d \in 1..tRun.decisions : TimesDispatched(d) <= 1

(***************************************************************************)
(* Claims about missing settings                                           *)
(***************************************************************************)

\* A setting the main pass and the validation pass load is missing.
SettingsMissing == ~settings.queue \/ ~settings.store

\* C34: when the queue or store settings a pass loads are missing, its
\* invocation returns before it handles a ticker or a candidate: the
\* main pass does not reach its loop, the validation pass evaluates no
\* candidate, the fast pass (which loads the store only) does not reach its
\* loop, and no document is written and no message is sent.
C34_FailFastConfiguration ==
    [][SettingsMissing =>
          /\ mainPass' # mainPass => mainPass'.pc \in {"skipped", "aborted"}
          /\ validationPass' # validationPass => validationPass'.evaluated = {}
          /\ (~settings.store /\ fastPass' # fastPass) => fastPass'.pc = "aborted"
          /\ ~settings.store => cand' = cand
          /\ cooldownRec' = cooldownRec
          /\ sent' = sent]_vars

(***************************************************************************)
(* Claims about exit messages                                              *)
(***************************************************************************)

\* An exit_position message, as opposed to an analysis request.
IsExit(message) ==
    "action" \in DOMAIN message /\ message.action = "exit_position"

\* The analysis requests sent for a confirmed fast candidate of the ticker
\* among the first n messages.
ConfirmRequests(ticker, n) ==
    {j \in 1..n : /\ ~IsExit(sent[j])
                  /\ sent[j].tickers = <<ticker>>
                  /\ sent[j].detection_method = "fast_confirm"}

C39_OneCandidatePerWindow ==
    \A c1, c2 \in cand :
        (c1.ticker = c2.ticker /\ c1.id # c2.id)
            => Abs(c1.detected_at - c2.detected_at) >= fast_cooldown_minutes

(***************************************************************************)
(* Claims about interleaved invocations of the main pass                   *)
(***************************************************************************)

\* No two analysis requests of one ticker lie less than the cooldown apart.
OneRequestPerWindow ==
    \A i, j \in 1..Len(sent) :
        (i < j /\ ~IsExit(sent[i]) /\ ~IsExit(sent[j])
               /\ sent[i].tickers = sent[j].tickers)
            => Abs(sent[j].triggered_at - sent[i].triggered_at) >= cooldown_minutes

\* C36: when two invocations of the main pass have each read the
\* CooldownRecord of a ticker before the other has written it, at most one
\* analysis request for the ticker is enqueued within the cooldown window:
\* once both invocations have ended, no two requests of the ticker lie less
\* than the cooldown apart.
C36_InterleavedInvocations ==
    (mainPass.pc = "idle" /\ otherMain.pc = "idle") => OneRequestPerWindow


(***************************************************************************)
(* Claims about the loop of a pass                                         *)
(***************************************************************************)

\* The exceptions of the bodies handled so far were all met while fetching
\* prices, quotes or bars.
OnlyFetchesRaised ==
    \A i \in 1..Len(loopRun.handled) :
        loopRun.handled[i].raised \in Fetches(loopRun.pass) \cup {"none"}

\* C32: in each pass the tickers (or candidates) are handled one after the
\* other, and an exception while fetching prices, quotes or bars for one of
\* them leaves every later one to be handled in the same invocation: the
\* bodies handled are those of the first tickers of the list, in order, and
\* a loop that ended after fetch exceptions only has handled every ticker.
C32_PartialFailureTolerance ==
    (loopRun.pass # "none" /\ OnlyFetchesRaised) =>
        /\ Len(loopRun.handled) = loopRun.idx - 1
        /\ \A i \in 1..Len(loopRun.handled) :
               loopRun.handled[i].ticker = loopRun.watchlist[i]
        /\ loopRun.idx <= Len(loopRun.watchlist) + 1

\* The loop of a pass ended, the fetch for its first ticker had raised, and
\* the body of its last ticker ran to its end.
C32_Witness ==
    /\ loopRun.pass # "none"
    /\ Len(loopRun.watchlist) = Len(default_watchlist)
    /\ loopRun.idx = Len(loopRun.watchlist) + 1
    /\ Len(loopRun.handled) = Len(loopRun.watchlist)
    /\ loopRun.handled[1].raised \in Fetches(loopRun.pass)
    /\ loopRun.handled[Len(loopRun.handled)].raised = "none"
=============================================================================
